---- MODULE Spec2Model ----
(***************************************************************************)
(* Model of the deenji crawler: the pagination dispatcher of main.py, one  *)
(* execution of crawl_and_save_property, the shared APIRateLimiter of      *)
(* extractor.py and the validation done by transform_for_db.               *)
(*                                                                         *)
(* The specifications of this module:                                      *)
(*   Spec           main(): mode selection, listing pagination, the        *)
(*                  per-widget tasks, the semaphore and the seen set       *)
(*   FairSpec       Spec with weak fairness (every remote call returns)    *)
(*   SpecItem       one call of crawl_and_save_property, stage by stage    *)
(*   SpecRL         the worker tasks inside fetch_divar_api_data, with time*)
(*   SpecLife       main() and the resources it opens and closes           *)
(*   SpecTransform  transform_for_db applied to bounded inputs             *)
(*   SpecSlots      transform_for_db applied to every kind of slot value   *)
(*   SpecAssembly   transform_for_db applied to core slots and attributes    *)
(*   SpecAttributes extract_attributes_from_api, then transform_for_db     *)
(*   SpecFields     the title and description of extract_property_details  *)
(*   SpecIndex      index_property called repeatedly on one cluster        *)
(*   SpecParse      parse_persian_number applied to bounded inputs         *)
(*   SpecClassify   classify_property_type applied to bounded inputs       *)
(***************************************************************************)
EXTENDS Integers, Sequences, FiniteSets, TLC

VARIABLES
    \* ---- main() ----
    mode,               \* TEST_MODE / API_ONLY_TEST / args.listname, as one word
    main_pc,            \* where main() is
    page_num,           \* loop variable of "for page_num in range(1, PAGES_TO_CRAWL + 1)"
    next_page_cursor,   \* main.py:489
    crawled_tokens,     \* main.py:490, the seen set
    semaphore,          \* value of the asyncio.Semaphore of the current page
    tasks,              \* the per-widget tasks of the current page (or the inline calls)
    crawl_starts,       \* history: how often crawl_and_save_property was started per token
    pages_fetched,      \* history: number of calls of fetch_divar_listings
    last_response,      \* what the search API answered to the last listings fetch
    last_page,          \* what main read from the last listings page
    last_request,       \* history: the cursor sent with the last listings request,
                        \* and the sort_date main had read on the page before it
    \* ---- one call of crawl_and_save_property ----
    it_pc,              \* where the call is
    it_args,            \* token, api_only, db_pool, storage_manager
    it_details,         \* "details" of extract_property_details while it awaits the API
    it_extracted,       \* extracted_data
    it_db_data,         \* db_data
    it_handed,          \* history: the calls made to the three collaborators
    it_log,             \* history: what the call logged
    it_requests,        \* history: the requests sent for the token and the
                        \* returns of api_rate_limiter.wait(), in order
    \* ---- transform_for_db as a function ----
    tf_in,              \* the argument, as it was passed
    tf_out,             \* the value returned
    tf_extracted,       \* the dict the argument refers to, as the call leaves it
    \* ---- the tasks of one page inside fetch_divar_api_data ----
    now,                \* datetime.now().timestamp(), in whole seconds
    last_call_time,     \* api_rate_limiter.last_call_time
    rl_tasks,           \* per task: where it is, and when its pending timer is due
    last_429,           \* history: when the API last answered 429
    rl_sends,           \* history: the returns of wait(), each followed by the request
    \* ---- main() and the resources it holds ----
    lf_pc,              \* where main is
    lf_mode,            \* the mode of the run
    lf_db_pool,         \* the asyncpg pool of db_utils
    lf_es,              \* es_indexer.es, the search client
    lf_unwinding,       \* the exception main's finally clause holds back
    lf_exit,            \* how main ended
    \* ---- calls of the pure functions ----
    fn_name,            \* the function that is called
    fn_in,              \* its argument
    fn_out,             \* the values returned so far
    \* ---- the search indexes written by index_property ----
    es_property_index,  \* the documents of the property index, by document id
    es_suggestion_index,\* the documents of the suggestion index, in the order of
                        \* their (generated) ids
    es_calls            \* history: the calls of index_property and what each left

dispVars == <<mode, main_pc, page_num, next_page_cursor, crawled_tokens, semaphore,
              tasks, crawl_starts, pages_fetched, last_response, last_page,
              last_request>>

itemVars == <<it_pc, it_args, it_details, it_extracted, it_db_data, it_handed, it_log,
             it_requests>>
tfVars == <<tf_in, tf_out, tf_extracted>>
rlVars == <<now, last_call_time, rl_tasks, last_429, rl_sends>>
lfVars == <<lf_pc, lf_mode, lf_db_pool, lf_es, lf_unwinding, lf_exit>>
fnVars == <<fn_name, fn_in, fn_out>>
esVars == <<es_property_index, es_suggestion_index, es_calls>>

vars == <<dispVars, itemVars, tfVars, rlVars, lfVars, fnVars, esVars>>
notDispVars == <<itemVars, tfVars, rlVars, lfVars, fnVars, esVars>>
notItemVars == <<dispVars, tfVars, rlVars, lfVars, fnVars, esVars>>
notTfVars == <<dispVars, itemVars, rlVars, lfVars, fnVars, esVars>>
notRlVars == <<dispVars, itemVars, tfVars, lfVars, fnVars, esVars>>
notLfVars == <<dispVars, itemVars, tfVars, rlVars, fnVars, esVars>>
notFnVars == <<dispVars, itemVars, tfVars, rlVars, lfVars, esVars>>
notEsVars == <<dispVars, itemVars, tfVars, rlVars, lfVars, fnVars>>

-----------------------------------------------------------------------------
\* Bounds of the model
NumTokens == 4      \* distinct listing tokens the remote index can return
MaxWidgets == 5     \* POST_ROW widgets on the first listings page / lines of a custom list
MaxLaterWidgets == 4  \* POST_ROW widgets on a later listings page
NumCursors == 2     \* distinct sort_date values

\* Program constants
PAGES_TO_CRAWL == 5
MAX_CONCURRENT_CRAWLS == 3

None == "None"      \* Python's None (also: key absent where the code uses .get)
Tok(i) == "t" \o ToString(i)
Tokens == {Tok(i) : i \in 1..NumTokens}
SortDates == {"d" \o ToString(i) : i \in 1..NumCursors}
TEST_TOKEN == Tok(1)

\* Python truthiness of an optional string
Truthy(s) == s # None /\ s # ""

Modes == {"test", "api_only", "custom", "pagination"}

-----------------------------------------------------------------------------
\* fetch_divar_listings

\* What the search API can answer to one POST.
\* http_error: raise_for_status(); timeout / conn_error: raised by session.post;
\* not_json: json.loads raises; not_object: the body is a JSON array, scalar or
\* null and data.get raises; unsized_widgets: list_widgets is null or a number
\* and len(...) raises.  All of it happens inside the try of main.py:129.
FailedResponses ==
    {"http_error", "timeout", "conn_error", "not_json", "not_object", "unsized_widgets"}
Responses == FailedResponses \cup {"empty_object", "no_list_widgets", "bad_widget", "widgets"}

\* The value fetch_divar_listings returns: every exception is caught and turned
\* into None; a JSON value that is no object fails in data.get(...) inside the try.
fetch_divar_listings(resp) ==
    IF resp \in FailedResponses THEN None ELSE resp

\* main.py:504-513: what the loop does with the returned value.
ListingsVerdictSkip(data) ==
    IF data = None \/ data = "empty_object" THEN "continue"
    ELSE IF data = "no_list_widgets" THEN "break"
    ELSE "process"

ListingsVerdict(data) ==
    IF data = None \/ data = "empty_object" THEN "break"       \* not listings_data
    ELSE IF data = "no_list_widgets" THEN "break"              \* key missing
    ELSE "process"

\* range(1, PAGES_TO_CRAWL + 1): is there an iteration after page p?
HasNextPageOffByOne(p) == p <= PAGES_TO_CRAWL

HasNextPage(p) == p < PAGES_TO_CRAWL

\* asyncio.Semaphore(MAX_CONCURRENT_CRAWLS), main.py:540
NewSemaphoreTooWide == MAX_CONCURRENT_CRAWLS + 1

NewSemaphore == MAX_CONCURRENT_CRAWLS

\* main.py:554: the dedup test of crawl_with_semaphore_wrapper
ShouldCrawlNoDedup(token, seen) == Truthy(token)

ShouldCrawl(token, seen) == Truthy(token) /\ token \notin seen

\* The wrapper as if it recorded a token only after its crawl.
AddNotAtStart(seen, token) == seen
\* main.py:555: crawled_tokens.add(token), before the crawl is awaited
Add(seen, token) == seen \cup {token}

-----------------------------------------------------------------------------
\* Tasks

PendingTask == [pc |-> "pending"]
TaskIn(pcs) == {i \in DOMAIN tasks : tasks[i].pc \in pcs}
InFlight == TaskIn({"crawl", "sleep"})
Finished == {"done", "skipped", "raised", "cancelled"}
SetPc(i, p) == [tasks EXCEPT ![i] = [pc |-> p]]

\* A POST_ROW widget as the wrapper reads it (main.py:545-552).
\* shape "malformed": "data", "action", "payload" or "web_info" is null instead of
\* an object, or web_info.title is null: the chain of .get calls or
\* raw_slug.replace raises AttributeError.
\* Tokens are opaque and only compared for equality, so they are numbered in the
\* order in which the run first meets them: a widget carries a token that was
\* seen before or the next unused one (or none).
KnownOrNext(seen) ==
    {Tok(k) : k \in 1..(IF Cardinality(seen) < NumTokens
                         THEN Cardinality(seen) + 1 ELSE NumTokens)}
Widgets(seen) == [token : KnownOrNext(seen) \cup {None, ""}, shape : {"ok", "malformed"}]

NoPage == [rows |-> 0, sort_date |-> "unread"]
NoRequest == [cursor |-> None, previous_sort_date |-> "unread"]

DispInit ==
    /\ mode \in Modes
    /\ main_pc = "init"
    /\ page_num = 0
    /\ next_page_cursor = None
    /\ crawled_tokens = {}
    /\ semaphore = 0
    /\ tasks = <<>>
    /\ crawl_starts = [t \in Tokens |-> 0]
    /\ pages_fetched = 0
    /\ last_response = "none"
    /\ last_page = NoPage
    /\ last_request = NoRequest

\* main.py:332-493: initialisation and the choice of the mode.
\* test / api_only: one inline call for TEST_TOKEN; custom: the deduplicated
\* token list of load_tokens_from_file (empty: main returns); else pagination.
MainInit ==
    /\ UNCHANGED notDispVars
    /\ last_request' = last_request
    /\ main_pc = "init"
    /\ UNCHANGED <<mode, next_page_cursor, crawled_tokens, semaphore, crawl_starts,
                   pages_fetched, last_response, last_page>>
    /\ \/ /\ mode \in {"test", "api_only"}
          /\ tasks' = <<PendingTask>>
          /\ main_pc' = "inline"
          /\ page_num' = page_num
       \/ /\ mode = "custom"
          /\ \E n \in 0..MaxWidgets :
                /\ n <= NumTokens
                /\ tasks' = [i \in 1..n |-> PendingTask]
                /\ main_pc' = IF n = 0 THEN "done" ELSE "inline"
          /\ page_num' = page_num
       \/ /\ mode = "pagination"
          /\ tasks' = tasks
          /\ main_pc' = "fetch"
          /\ page_num' = 1

\* The end of one loop iteration that did not break: the next iteration,
\* or the end of the for loop and of main.
NextIteration ==
    IF HasNextPage(page_num)
    THEN /\ main_pc' = "fetch"
         /\ page_num' = page_num + 1
    ELSE /\ main_pc' = "done"
         /\ page_num' = page_num

Break ==
    /\ main_pc' = "done"
    /\ page_num' = page_num

\* main.py:500-569: one listings fetch and what main does with the page up to
\* its next suspension.  For a page without POST_ROW widget, "last" is what the
\* cursor lookup of main.py:524-534 finds on the last widget of list_widgets:
\* a sort_date, or None (empty list, key missing, empty value).
FetchListings ==
    /\ UNCHANGED notDispVars
    \* main.py:500-502: last_sort_date_cursor=next_page_cursor
    /\ last_request' = [cursor |-> next_page_cursor,
                        previous_sort_date |-> last_page.sort_date]
    /\ main_pc = "fetch"
    /\ pages_fetched' = pages_fetched + 1
    /\ UNCHANGED <<mode, crawled_tokens, crawl_starts>>
    /\ \E resp \in Responses :
        /\ last_response' = resp
        /\ LET data == fetch_divar_listings(resp) IN
           CASE ListingsVerdict(data) = "break" ->
                  /\ Break
                  /\ UNCHANGED <<next_page_cursor, semaphore, tasks, last_page>>
             [] ListingsVerdict(data) = "continue" ->
                  /\ NextIteration
                  /\ UNCHANGED <<next_page_cursor, semaphore, tasks, last_page>>
             [] OTHER ->
                  IF resp = "bad_widget"
                  THEN \* w.get("widget_type") on a widget that is no object:
                       \* AttributeError, caught at main.py:595
                       /\ main_pc' = "aborting"
                       /\ page_num' = page_num
                       /\ UNCHANGED <<next_page_cursor, semaphore, tasks, last_page>>
                  ELSE \E n \in 0..(IF page_num = 1 THEN MaxWidgets ELSE MaxLaterWidgets) :
                       IF n = 0
                       THEN \E last \in SortDates \cup {None} :
                              /\ last_page' = [rows |-> 0, sort_date |-> last]
                              /\ next_page_cursor' =
                                    IF last # None THEN last ELSE next_page_cursor
                              /\ IF next_page_cursor' = None /\ page_num < PAGES_TO_CRAWL
                                 THEN Break
                                 ELSE NextIteration
                              /\ UNCHANGED <<semaphore, tasks>>
                       ELSE /\ last_page' = [rows |-> n, sort_date |-> "unread"]
                            /\ semaphore' = NewSemaphore
                            /\ tasks' = [i \in 1..n |-> PendingTask]
                            /\ main_pc' = "gather"
                            /\ page_num' = page_num
                            /\ UNCHANGED next_page_cursor

\* crawl_with_semaphore_wrapper, main.py:543-564, from the moment the task
\* gets its slot up to its first suspension inside crawl_and_save_property
\* (or its end, when nothing is crawled).  Tasks get their slot in the order
\* gather created them: the semaphore wakes its waiters first in, first out.
TaskStart(i) ==
    /\ UNCHANGED notDispVars
    /\ last_request' = last_request
    /\ main_pc \in {"gather", "aborting"}
    /\ i \in DOMAIN tasks
    /\ tasks[i].pc = "pending"
    /\ \A j \in 1..(i - 1) : tasks[j].pc # "pending"
    /\ semaphore > 0
    /\ UNCHANGED <<mode, main_pc, page_num, next_page_cursor, pages_fetched,
                   last_response, last_page>>
    /\ \E w \in Widgets(crawled_tokens) :
        IF w.shape = "malformed"
        THEN /\ tasks' = SetPc(i, "raised")
             /\ UNCHANGED <<semaphore, crawled_tokens, crawl_starts>>
        ELSE IF ShouldCrawl(w.token, crawled_tokens)
        THEN /\ crawled_tokens' = Add(crawled_tokens, w.token)
             /\ crawl_starts' = [crawl_starts EXCEPT ![w.token] = @ + 1]
             /\ semaphore' = semaphore - 1
             /\ tasks' = SetPc(i, "crawl")
        ELSE /\ tasks' = SetPc(i, IF Truthy(w.token) THEN "skipped" ELSE "done")
             /\ UNCHANGED <<semaphore, crawled_tokens, crawl_starts>>

\* main.py:380-407 and 432-441: the inline calls of the test, API-only and
\* custom-list modes, one after the other, without semaphore or seen set.
\* load_tokens_from_file returns distinct non-empty tokens: line i holds Tok(i).
InlineStart(i) ==
    /\ UNCHANGED notDispVars
    /\ last_request' = last_request
    /\ main_pc = "inline"
    /\ i \in DOMAIN tasks
    /\ tasks[i].pc = "pending"
    /\ \A j \in 1..(i - 1) : tasks[j].pc = "done"
    /\ UNCHANGED <<mode, main_pc, page_num, next_page_cursor, pages_fetched,
                   last_response, last_page, semaphore, crawled_tokens>>
    /\ LET t == IF mode = "custom" THEN Tok(i) ELSE TEST_TOKEN IN
        crawl_starts' = [crawl_starts EXCEPT ![t] = @ + 1]
    /\ tasks' = SetPc(i, "crawl")

\* crawl_and_save_property, main.py:180-322: the crawl, the extraction and the
\* persistence of one token have ended (every exception in there is caught);
\* main.py:325-328: the post-item delay starts, except in API-only mode.
CrawlFinish(i) ==
    /\ UNCHANGED notDispVars
    /\ last_request' = last_request
    /\ main_pc \in {"gather", "aborting", "inline"}
    /\ i \in DOMAIN tasks
    /\ tasks[i].pc = "crawl"
    /\ tasks' = SetPc(i, IF mode = "api_only" THEN "done" ELSE "sleep")
    /\ UNCHANGED <<mode, main_pc, page_num, next_page_cursor, pages_fetched,
                   last_response, last_page, semaphore, crawled_tokens, crawl_starts>>

\* main.py:328 and the end of "async with semaphore": the delay is over, the
\* call returns and the slot is released.
SleepReturn(i) ==
    /\ UNCHANGED notDispVars
    /\ last_request' = last_request
    /\ main_pc \in {"gather", "aborting", "inline"}
    /\ i \in DOMAIN tasks
    /\ tasks[i].pc = "sleep"
    /\ tasks' = SetPc(i, "done")
    /\ semaphore' = IF mode = "pagination" THEN semaphore + 1 ELSE semaphore
    /\ UNCHANGED <<mode, main_pc, page_num, next_page_cursor, pages_fetched,
                   last_response, last_page, crawled_tokens, crawl_starts>>

\* gather as if it returned with the first task that ends.
GatherReturnFirstCompleted ==
    /\ UNCHANGED notDispVars
    /\ last_request' = last_request
    /\ main_pc = "gather"
    /\ \E i \in DOMAIN tasks : tasks[i].pc \in {"done", "skipped"}
    /\ \E sd \in SortDates \cup {None} :
        /\ last_page' = [last_page EXCEPT !.sort_date = sd]
        /\ next_page_cursor' = sd
        /\ IF sd = None /\ page_num < PAGES_TO_CRAWL THEN Break ELSE NextIteration
    /\ tasks' = <<>>
    /\ UNCHANGED <<mode, crawled_tokens, semaphore, crawl_starts, pages_fetched,
                   last_response>>
\* main.py:569-593: gather returns when every task has ended without raising;
\* the cursor is read from the last POST_ROW widget.
GatherReturn ==
    /\ UNCHANGED notDispVars
    /\ last_request' = last_request
    /\ main_pc = "gather"
    /\ \A i \in DOMAIN tasks : tasks[i].pc \in {"done", "skipped"}
    /\ \E sd \in SortDates \cup {None} :
        /\ last_page' = [last_page EXCEPT !.sort_date = sd]
        /\ next_page_cursor' = sd
        /\ IF sd = None /\ page_num < PAGES_TO_CRAWL THEN Break ELSE NextIteration
    /\ tasks' = <<>>
    /\ UNCHANGED <<mode, crawled_tokens, semaphore, crawl_starts, pages_fetched,
                   last_response>>

\* main.py:569 and 595-598: gather re-raises the first exception of a task,
\* the other tasks are left running, and main enters its except clause.
\* The event loop runs every task that can take a slot before it resumes
\* main: gather's tasks were scheduled before main suspended, and a task that
\* ends wakes the next waiter before its done-callback reaches gather.
GatherRaise ==
    /\ UNCHANGED notDispVars
    /\ last_request' = last_request
    /\ main_pc = "gather"
    /\ TaskIn({"raised"}) # {}
    /\ TaskIn({"pending"}) = {} \/ semaphore = 0
    /\ main_pc' = "aborting"
    /\ UNCHANGED <<mode, page_num, next_page_cursor, crawled_tokens, semaphore, tasks,
                   crawl_starts, pages_fetched, last_response, last_page>>

\* main.py:595-607, 611-613: main leaves the crawler, runs its finally clause and
\* returns; asyncio.run then cancels every task that has not ended. A task
\* cancelled inside "async with semaphore" gives its slot back; a task
\* cancelled while it waits for a slot never had one.
MainAbort ==
    /\ UNCHANGED notDispVars
    /\ last_request' = last_request
    /\ main_pc = "aborting"
    /\ main_pc' = "done"
    /\ tasks' = [i \in DOMAIN tasks |->
                    IF tasks[i].pc \in Finished THEN tasks[i] ELSE [pc |-> "cancelled"]]
    /\ semaphore' = semaphore + Cardinality(InFlight)
    /\ UNCHANGED <<mode, page_num, next_page_cursor, crawled_tokens,
                   crawl_starts, pages_fetched, last_response, last_page>>

\* main.py:409-414, 443-448: the inline calls are over, main cleans up and returns.
InlineDone ==
    /\ UNCHANGED notDispVars
    /\ last_request' = last_request
    /\ main_pc = "inline"
    /\ \A i \in DOMAIN tasks : tasks[i].pc = "done"
    /\ main_pc' = "done"
    /\ UNCHANGED <<mode, page_num, next_page_cursor, crawled_tokens, semaphore, tasks,
                   crawl_starts, pages_fetched, last_response, last_page>>

DispNext ==
    \/ MainInit
    \/ FetchListings
    \/ \E i \in 1..(MaxWidgets) : TaskStart(i)
    \/ \E i \in 1..(MaxWidgets) : InlineStart(i)
    \/ \E i \in 1..(MaxWidgets) : CrawlFinish(i)
    \/ \E i \in 1..(MaxWidgets) : SleepReturn(i)
    \/ GatherReturn
    \/ GatherRaise
    \/ MainAbort
    \/ InlineDone

\* The dispatcher at rest, for the specifications of the other components.
DispIdle ==
    /\ mode = "pagination"
    /\ main_pc = "init"
    /\ page_num = 0
    /\ next_page_cursor = None
    /\ crawled_tokens = {}
    /\ semaphore = 0
    /\ tasks = <<>>
    /\ crawl_starts = [t \in Tokens |-> 0]
    /\ pages_fetched = 0
    /\ last_response = "none"
    /\ last_page = NoPage
    /\ last_request = NoRequest

-----------------------------------------------------------------------------
\* Python values

\* A Python dict is a function from the keys it holds; d.get(k) is None for a
\* key it does not hold.  Null is the Python None where a dict is expected.
Null == [python_none |-> TRUE]
EmptyDict == [k \in {} |-> None]
Get(d, k) == IF k \in DOMAIN d THEN d[k] ELSE None
\* d1.update(d2)
Update(d1, d2) == [k \in DOMAIN d1 \cup DOMAIN d2 |-> IF k \in DOMAIN d2 THEN d2[k] ELSE d1[k]]

-----------------------------------------------------------------------------
\* classify_property_type (text_utils.py:4-63)

MaxWords == 2       \* cue words in one text

\* The words the classifier looks for, and the longer words of the same
\* vocabulary that contain them; a text is the set of these words that occur
\* in it (None: Python's None). Written in Latin letters:
\*   vila ویلا, vilayi ویلایی, aparteman آپارتمان, aparteman_alef اپارتمان,
\*   borj برج, mojtame_maskuni مجتمع مسکونی, vahed واحد, zamin زمین,
\*   qete قطعه, qete_zamin قطعه زمین, bagh باغ, baghche باغچه
Words == {"vila", "vilayi", "aparteman", "aparteman_alef", "borj", "mojtame_maskuni",
          "vahed", "zamin", "qete", "qete_zamin", "bagh", "baghche"}
Parts(word) ==
    CASE word = "vilayi" -> {"vilayi", "vila"}
      [] word = "qete_zamin" -> {"qete_zamin", "qete", "zamin"}
      [] word = "baghche" -> {"baghche", "bagh"}
      [] OTHER -> {word}
Text(words) == [words |-> words]
Texts == {Text(ws) : ws \in {s \in SUBSET Words : Cardinality(s) <= MaxWords}} \cup {Null}

\* text_utils.py:9-10: "x.lower() if x else ''"
LowerOrEmpty(text) == IF text = Null THEN Text({}) ELSE text
\* Python's "keyword in text"
In(keyword, text) == \E w \in text.words : keyword \in Parts(w)

VILLA == "Villa"
APARTMENT == "Apartment"
LAND == "Land"

\* text_utils.py:12-37 with the apartment test before the villa test
classify_apartment_first(title0, description0) ==
    LET title == LowerOrEmpty(title0)
        description == LowerOrEmpty(description0)
        either(k) == In(k, title) \/ In(k, description)
    IN IF \/ either("aparteman") \/ either("aparteman_alef") \/ either("borj")
          \/ either("mojtame_maskuni")
          \/ (either("vahed") /\ ~either("vila") /\ ~either("zamin"))
       THEN APARTMENT
       ELSE IF either("vila") \/ either("vilayi")
       THEN VILLA
       ELSE IF \/ either("zamin") \/ either("qete_zamin") \/ either("qete")
               \/ either("bagh") \/ either("baghche")
       THEN LAND
       ELSE None

classify_property_type(title0, description0) ==
    LET title == LowerOrEmpty(title0)
        description == LowerOrEmpty(description0)
    IN IF \/ In("vila", title) \/ In("vila", description)
          \/ In("vilayi", title) \/ In("vilayi", description)
       THEN VILLA
       ELSE IF \/ In("aparteman", title) \/ In("aparteman", description)
               \/ In("aparteman_alef", title) \/ In("aparteman_alef", description)
               \/ In("borj", title) \/ In("borj", description)
               \/ In("mojtame_maskuni", title) \/ In("mojtame_maskuni", description)
               \/ /\ In("vahed", title) \/ In("vahed", description)
                  /\ ~(In("vila", title) \/ In("vila", description))
                  /\ ~(In("zamin", title) \/ In("zamin", description))
       THEN APARTMENT
       ELSE IF \/ In("zamin", title) \/ In("zamin", description)
               \/ In("qete_zamin", title) \/ In("qete_zamin", description)
               \/ In("qete", title) \/ In("qete", description)
               \/ /\ In("bagh", title) \/ In("bagh", description)
                  /\ ~(In("vila", title) \/ In("vila", description))
                  /\ ~(In("aparteman", title) \/ In("aparteman", description))
                  /\ ~(In("aparteman_alef", title) \/ In("aparteman_alef", description))
               \/ /\ In("baghche", title) \/ In("baghche", description)
                  /\ ~(In("vila", title) \/ In("vila", description))
                  /\ ~(In("aparteman", title) \/ In("aparteman", description))
                  /\ ~(In("aparteman_alef", title) \/ In("aparteman_alef", description))
       THEN LAND
       ELSE None

-----------------------------------------------------------------------------
\* Calls of the pure functions: fn_name is the function, fn_in its argument,
\* fn_out the values returned so far (none before the call).

FnIdle ==
    /\ fn_name = "none"
    /\ fn_in = Null
    /\ fn_out = <<>>

FnInit(name, inputs) ==
    /\ fn_name = name
    /\ fn_in \in inputs
    /\ fn_out = <<>>

FnCalled(name) == fn_name = name /\ fn_out # <<>>

ClassifyInputs == [title : Texts, description : Texts]

ClassifyCall ==
    /\ UNCHANGED notFnVars
    /\ fn_name = "classify_property_type"
    /\ fn_out = <<>>
    /\ fn_out' = <<classify_property_type(fn_in.title, fn_in.description)>>
    /\ UNCHANGED <<fn_name, fn_in>>


-----------------------------------------------------------------------------
\* parse_persian_number (extractor.py:60-85)

MaxLen == 3         \* characters and words in one input string

\* A string is a sequence of these pieces (a digit, a separator, a word):
\*   "0" "1"  Latin digits        "fa3"  the Persian digit ۳
\*   "ar5"  the Arabic-Indic digit ٥
\*   "9x17"  seventeen times the digit 9    "9x309"  309 times the digit 9
\*   ","  "sep_fa" (٬)  "."  "-"  " "
\*   "metr" (متر)  "metr_moraba" (مترمربع, which begins with متر)  "toman" (تومان)
\*   "moraba" (مربع, what is left of مترمربع without متر)  "x" any other letter
Digits == {"0", "1", "3", "5", "9x17", "9x309"}
Pieces == {"0", "1", "fa3", "ar5", "9x17", "9x309", ",", "sep_fa", ".", "-", " ",
           "metr", "metr_moraba", "toman", "x"}
Str(pieces) == [pieces |-> pieces]
IsStr(value) == "pieces" \in DOMAIN value       \* isinstance(value, str)
Strings == {Str(pieces) : pieces \in UNION {[1..n -> Pieces] : n \in 0..MaxLen}}
\* What is passed for s and is no string: None, a number, a boolean.
NonStrings == {Null, [number |-> 12], [boolean |-> TRUE]}

\* Number of characters of a run of digits
DigitCount(piece) == CASE piece = "9x17" -> 17 [] piece = "9x309" -> 309 [] OTHER -> 1
RECURSIVE CountDigits(_)
CountDigits(s) == IF s = <<>> THEN 0 ELSE DigitCount(Head(s)) + CountDigits(Tail(s))

RECURSIVE StripLeadingZeros(_)
StripLeadingZeros(s) ==
    IF s # <<>> /\ Head(s) = "0" THEN StripLeadingZeros(Tail(s)) ELSE s
RECURSIVE StripTrailingZeros(_)
StripTrailingZeros(s) ==
    IF s # <<>> /\ s[Len(s)] = "0" THEN StripTrailingZeros(SubSeq(s, 1, Len(s) - 1)) ELSE s

\* extractor.py:65-71: the three unit words are removed in this order, so
\* مترمربع has lost its متر before it is looked for; then the separators.
RemoveUnits(s) ==
    LET without_metr == [i \in 1..Len(s) |-> IF s[i] = "metr_moraba" THEN "moraba" ELSE s[i]]
        IsKept(p) == p \notin {"metr", "toman", "metr_moraba", "sep_fa", ","}
    IN SelectSeq(without_metr, IsKept)

\* extractor.py:74: persian_num_map, then arabic_num_map
Translate(s) ==
    [i \in 1..Len(s) |-> CASE s[i] = "fa3" -> "3" [] s[i] = "ar5" -> "5" [] OTHER -> s[i]]

\* extractor.py:77: re.sub(r"[^\d.-]+", "", ...)
IsNumeric(p) == p \in Digits \cup {".", "-"}
KeepNumeric(s) == SelectSeq(s, IsNumeric)

\* Python's float() on a string of digits, dots and minus signs: an optional
\* leading sign, digits with at most one dot, at least one digit.
IsDigit(p) == p \in Digits
IsDot(p) == p = "."
Unsigned(s) == IF s # <<>> /\ Head(s) = "-" THEN Tail(s) ELSE s
FloatAccepts(s) ==
    LET u == Unsigned(s)
    IN /\ \A i \in 1..Len(u) : u[i] # "-"
       /\ Len(SelectSeq(u, IsDot)) <= 1
       /\ SelectSeq(u, IsDigit) # <<>>

\* The decimal number a string accepted by float() denotes.
DotAt(u) == IF \E i \in 1..Len(u) : u[i] = "."
            THEN CHOOSE i \in 1..Len(u) : u[i] = "."
            ELSE Len(u) + 1
Denoted(s) ==
    LET u == Unsigned(s)
        int_part == StripLeadingZeros(SubSeq(u, 1, DotAt(u) - 1))
        frac_part == StripTrailingZeros(SubSeq(u, DotAt(u) + 1, Len(u)))
    IN [negative |-> s[1] = "-" /\ (int_part \o frac_part) # <<>>,
        int_part |-> int_part,
        frac_part |-> frac_part]

\* A double holds every decimal of up to 15 significant digits and nothing
\* above 1.8e308.
DBL_DIG == 15
DBL_MAX_10_EXP == 308
SignificantDigits(d) ==
    IF d.int_part # <<>>
    THEN CountDigits(d.int_part) + CountDigits(d.frac_part)
    ELSE CountDigits(StripLeadingZeros(d.frac_part))

OverflowError == [raised |-> "OverflowError"]
PyInt(d) == [type |-> "int", negative |-> d.negative, digits |-> d.int_part]
PyFloat(d) == [type |-> "float", negative |-> d.negative, int_part |-> d.int_part,
             frac_part |-> d.frac_part]
\* An int or a float that is not the number the string denotes: the nearest
\* double (every such number of the model has more than 53 significant bits).
Rounded == [type |-> "int or float", rounded |-> TRUE]

\* extractor.py:81-82 without the conversion of an integral value to int
FloatNoInt(cleaned_s) ==
    LET d == Denoted(cleaned_s)
    IN IF CountDigits(d.int_part) > DBL_MAX_10_EXP THEN OverflowError
       ELSE IF SignificantDigits(d) > DBL_DIG THEN Rounded
       ELSE PyFloat(d)

\* extractor.py:81-82: float(), then int() when the value is integral.
\* float() returns inf above the range, and int(inf) raises OverflowError.
FloatThenInt(cleaned_s) ==
    LET d == Denoted(cleaned_s)
    IN IF CountDigits(d.int_part) > DBL_MAX_10_EXP THEN OverflowError
       ELSE IF SignificantDigits(d) > DBL_DIG THEN Rounded
       ELSE IF d.frac_part = <<>> THEN PyInt(d)
       ELSE PyFloat(d)

parse_persian_number(s) ==
    IF ~IsStr(s) \/ s = Str(<<>>)
    THEN Null
    ELSE LET cleaned_s == KeepNumeric(Translate(RemoveUnits(s.pieces)))
         IN IF cleaned_s = <<>> \/ cleaned_s = <<"-">> THEN Null
            ELSE IF ~FloatAccepts(cleaned_s) THEN Null      \* ValueError
            ELSE FloatThenInt(cleaned_s)

ParseInputs == Strings \cup NonStrings

ParseCall ==
    /\ UNCHANGED notFnVars
    /\ fn_name = "parse_persian_number"
    /\ fn_out = <<>>
    /\ fn_out' = <<parse_persian_number(fn_in)>>
    /\ UNCHANGED <<fn_name, fn_in>>

-----------------------------------------------------------------------------
\* transform_for_db (extractor.py:517-796)


SENTINEL_TITLE == "N/A"

\* extractor.py:521-531 without the test for the "N/A" sentinel
TransformRejectsNoSentinel(extracted_data) ==
    \/ extracted_data = Null
    \/ extracted_data = EmptyDict
    \/ ~Truthy(Get(extracted_data, "external_id"))
    \/ ~Truthy(Get(extracted_data, "title"))

\* extractor.py:521-531: the two early returns of transform_for_db
TransformRejects(extracted_data) ==
    \/ extracted_data = Null                                \* not extracted_data
    \/ extracted_data = EmptyDict
    \/ ~Truthy(Get(extracted_data, "external_id"))
    \/ ~Truthy(Get(extracted_data, "title"))
    \/ Get(extracted_data, "title") = SENTINEL_TITLE

\* An AttributeEntry as extract_attributes_from_api appends it for an info
\* row (extractor.py:153-157): the title is whatever JSON value the payload
\* holds under "title". JsonArrayTitle stands for a title that is a JSON array.
MaxAttrs == 1
JsonArrayTitle == "<json array>"
AttrTitles == {"area", "rooms", JsonArrayTitle}
AttributeLists == UNION {[1..n -> [title : AttrTitles]] : n \in 0..MaxAttrs}
Hashable(title) == title # JsonArrayTitle

\* The values a slot of extracted_data can hold: None, a string, a number
\* (as parse_persian_number returns it), a boolean; or the key is missing.
\* Besides the pieces of parse_persian_number a string can be one of the
\* words "None", "null", "inf", "nan", "True", "yes", "bale" (بله).
Bool(b) == [bool |-> b]
IsBool(value) == "bool" \in DOMAIN value
IsNumber(value) == "type" \in DOMAIN value
GetSlot(d, k) == IF k \in DOMAIN d THEN d[k] ELSE Null

\* str(value).strip() (extractor.py:563)
RECURSIVE LStrip(_)
LStrip(s) == IF s # <<>> /\ Head(s) = " " THEN LStrip(Tail(s)) ELSE s
RECURSIVE RStrip(_)
RStrip(s) == IF s # <<>> /\ s[Len(s)] = " " THEN RStrip(SubSeq(s, 1, Len(s) - 1)) ELSE s
Strip(s) == RStrip(LStrip(s))
Sign(negative) == IF negative THEN <<"-">> ELSE <<>>
OrZero(digits) == IF digits = <<>> THEN <<"0">> ELSE digits
PyStr(value) ==
    CASE IsStr(value) -> value.pieces
      [] IsBool(value) -> IF value.bool THEN <<"True">> ELSE <<"False">>
      [] value = Rounded -> <<"rounded">>
      [] IsNumber(value) /\ value.type = "int" ->
            Sign(value.negative) \o OrZero(value.digits)
      [] IsNumber(value) /\ value.type = "float" ->
            Sign(value.negative) \o OrZero(value.int_part) \o <<".">> \o value.frac_part

\* float(str_value) (extractor.py:566): the double, or ValueError. float()
\* reads the digits of every script, and "inf" and "nan".
Inf == [not_finite |-> "inf"]
NaN == [not_finite |-> "nan"]
ValueError == [raised |-> "ValueError"]
FloatOf(str_value) ==
    CASE str_value \in {<<"inf">>, <<"-", "inf">>} -> Inf
      [] str_value = <<"nan">> -> NaN
      [] str_value = <<"rounded">> -> Rounded
      [] OTHER ->
            IF /\ \A i \in 1..Len(str_value) :
                      str_value[i] \in {"0", "1", "fa3", "ar5", "3", "5", "9x17", "9x309", ".", "-"}
               /\ FloatAccepts(Translate(str_value))
            THEN LET d == Denoted(Translate(str_value))
                 IN IF CountDigits(d.int_part) > DBL_MAX_10_EXP THEN Inf
                    ELSE IF SignificantDigits(d) > DBL_DIG THEN Rounded
                    ELSE [double |-> d]
            ELSE ValueError

\* int(float_value): OverflowError for inf and ValueError for nan, both
\* caught at extractor.py:579; the fraction is cut off.
RoundedInt == [type |-> "int", rounded |-> TRUE]
Truncated(d) == [type |-> "int", negative |-> d.negative /\ d.int_part # <<>>,
                 digits |-> d.int_part]

\* extractor.py:558-584 with the value kept as it is when float() refuses it
NumericFieldKeepsValue(field, value) ==
    IF value = Null THEN Null
    ELSE LET str_value == Strip(PyStr(value))
             float_value == FloatOf(str_value)
         IN IF str_value \in {<<>>, <<"None">>, <<"null">>} THEN Null
            ELSE IF float_value = ValueError THEN value
            ELSE IF float_value \in {Inf, NaN} THEN Null
            ELSE IF field \in {"year_built", "bedrooms"}
                 THEN (IF float_value = Rounded THEN RoundedInt
                       ELSE Truncated(float_value.double))
            ELSE IF float_value = Rounded THEN Rounded
            ELSE IF float_value.double.frac_part = <<>> THEN PyInt(float_value.double)
            ELSE PyFloat(float_value.double)

\* extractor.py:558-584: one slot of numeric_fields
NumericField(field, value) ==
    IF value = Null THEN Null
    ELSE LET str_value == Strip(PyStr(value))
             float_value == FloatOf(str_value)
         IN IF str_value \in {<<>>, <<"None">>, <<"null">>} THEN Null
            ELSE IF float_value \in {ValueError, Inf, NaN} THEN Null
            ELSE IF field \in {"year_built", "bedrooms"}
                 THEN (IF float_value = Rounded THEN RoundedInt
                       ELSE Truncated(float_value.double))
            ELSE IF float_value = Rounded THEN Rounded
            ELSE IF float_value.double.frac_part = <<>> THEN PyInt(float_value.double)
            ELSE PyFloat(float_value.double)

\* Python truthiness of a slot value
PyTruthy(value) ==
    CASE value = Null -> FALSE
      [] IsStr(value) -> value.pieces # <<>>
      [] IsBool(value) -> value.bool
      [] value = Rounded -> TRUE
      [] IsNumber(value) /\ value.type = "int" -> value.digits # <<>>
      [] IsNumber(value) /\ value.type = "float" -> TRUE

\* extractor.py:587-596: one slot of boolean_fields; a missing key is False.
\* value.lower() makes "True" the "true" of the tuple.
BooleanField(extracted_data, field) ==
    LET value == IF field \in DOMAIN extracted_data THEN extracted_data[field]
                 ELSE Bool(FALSE)
    IN IF IsStr(value)
       THEN value.pieces \in {<<"True">>, <<"1">>, <<"yes">>, <<"bale">>}
       ELSE PyTruthy(value)

\* extractor.py:655-670: the first attribute titled اتاق ("rooms") whose
\* value is truthy and parses without an exception ends the scan.
AttrGet(attr, k) == IF k \in DOMAIN attr THEN attr[k] ELSE Null
RECURSIVE BedroomsFromAttributes(_)
BedroomsFromAttributes(attributes) ==
    IF attributes = <<>> THEN Null
    ELSE LET attr == Head(attributes)
             value == AttrGet(attr, "value")
         IN IF /\ attr.title = "rooms"
               /\ PyTruthy(value)
               /\ parse_persian_number(value) # OverflowError
            THEN parse_persian_number(value)
            ELSE BedroomsFromAttributes(Tail(attributes))

\* extractor.py:746-762: the core attributes, in the order of the dict, each
\* appended with str(value) unless the slot is None or its title is among
\* the titles the list had before the loop. The titles are written in Latin
\* letters: area متراژ, land_area متراژ زمین, property_type نوع ملک,
\* year_built ساخت, rooms اتاق, price قیمت کل, price_per_meter قیمت هر متر,
\* floor طبقه.
CoreAttrs ==
    <<[title |-> "area", slot |-> "area"],
      [title |-> "land_area", slot |-> "land_area"],
      [title |-> "property_type", slot |-> "property_type"],
      [title |-> "year_built", slot |-> "year_built"],
      [title |-> "rooms", slot |-> "bedrooms"],
      [title |-> "price", slot |-> "price"],
      [title |-> "price_per_meter", slot |-> "price_per_meter"],
      [title |-> "floor", slot |-> "floor_info"]>>
TitlesOf(attributes) == {attributes[i].title : i \in DOMAIN attributes}
RECURSIVE AppendCore(_, _, _, _)
AppendCore(attributes, existing_attr_titles, extracted_data, i) ==
    IF i > Len(CoreAttrs) THEN attributes
    ELSE LET value == GetSlot(extracted_data, CoreAttrs[i].slot)
             entry == [title |-> CoreAttrs[i].title, value |-> Str(PyStr(value))]
         IN AppendCore(IF value # Null /\ CoreAttrs[i].title \notin existing_attr_titles
                       THEN Append(attributes, entry) ELSE attributes,
                       existing_attr_titles, extracted_data, i + 1)

\* The assembly without the test "title not in existing_attr_titles".
WithCoreAttrsAlways(extracted_data) ==
    LET attributes == IF "attributes" \in DOMAIN extracted_data
                      THEN extracted_data["attributes"] ELSE <<>>
    IN AppendCore(attributes, {}, extracted_data, 1)
WithCoreAttrs(extracted_data) ==
    LET attributes == IF "attributes" \in DOMAIN extracted_data
                      THEN extracted_data["attributes"] ELSE <<>>
    IN AppendCore(attributes, TitlesOf(attributes), extracted_data, 1)

\* extractor.py:606-622 (text_fields), 764-769: the property type of the
\* slot, or else the value of the first attribute titled نوع ملک.
TextField(value) ==
    IF value # Null /\ Strip(PyStr(value)) # <<>> THEN Str(Strip(PyStr(value))) ELSE Null
RECURSIVE FirstValue(_, _)
FirstValue(attributes, title) ==
    IF attributes = <<>> THEN Null
    ELSE IF Head(attributes).title = title THEN AttrGet(Head(attributes), "value")
    ELSE FirstValue(Tail(attributes), title)
PropertyTypeBeforeClassify(extracted_data) ==
    IF TextField(GetSlot(extracted_data, "property_type")) # Null
    THEN TextField(GetSlot(extracted_data, "property_type"))
    ELSE FirstValue(WithCoreAttrs(extracted_data), "property_type")

\* extractor.py:772-787: classify_property_type on the title and the
\* description; a title or description of the model is one cue word of the
\* classifier or a text without any.
TextOf(s) == IF s = None THEN Null ELSE Text(IF s \in Words THEN {s} ELSE {})
Classified(extracted_data) ==
    classify_property_type(TextOf(Get(extracted_data, "title")),
                           TextOf(Get(extracted_data, "description")))
PropertyType(extracted_data) ==
    IF PropertyTypeBeforeClassify(extracted_data) # Null
    THEN PropertyTypeBeforeClassify(extracted_data)
    ELSE IF Classified(extracted_data) # None
    THEN Str(<<Classified(extracted_data)>>)
    ELSE Null
Attributes(extracted_data) ==
    LET p_attributes == WithCoreAttrs(extracted_data)
    IN IF /\ PropertyTypeBeforeClassify(extracted_data) = Null
          /\ Classified(extracted_data) # None
          /\ "property_type" \notin TitlesOf(p_attributes)
       THEN Append(p_attributes,
                   [title |-> "property_type", value |-> Str(<<Classified(extracted_data)>>)])
       ELSE p_attributes

\* What a call of transform_for_db ends in when it does not return.
Raised == [raised |-> "TypeError"]

\* extractor.py:539, 759: the set comprehension over the attribute titles
\* raises TypeError for a title that is not hashable.
AttrTitlesRaise(extracted_data) ==
    LET p_attributes == IF "attributes" \in DOMAIN extracted_data
                        THEN extracted_data["attributes"] ELSE <<>>
    IN \E i \in DOMAIN p_attributes : ~Hashable(p_attributes[i].title)

\* extractor.py:517-547, 759, 796: the validation, the identifying fields of
\* the record that is built, and the exception that ends the call instead
transform_for_db(extracted_data) ==
    IF TransformRejects(extracted_data)
    THEN Null
    ELSE IF AttrTitlesRaise(extracted_data)
    THEN Raised
    ELSE LET Numeric(field) == NumericField(field, GetSlot(extracted_data, field))
             attributes == IF "attributes" \in DOMAIN extracted_data
                           THEN extracted_data["attributes"] ELSE <<>>
         IN [p_external_id |-> Get(extracted_data, "external_id"),
             p_title |-> Get(extracted_data, "title"),
             p_description |-> Get(extracted_data, "description"),
             p_price |-> Numeric("price"),
             p_price_per_meter |-> Numeric("price_per_meter"),
             p_area |-> Numeric("area"),
             p_land_area |-> Numeric("land_area"),
             p_year_built |-> Numeric("year_built"),
             p_bedrooms |-> IF Numeric("bedrooms") # Null THEN Numeric("bedrooms")
                            ELSE BedroomsFromAttributes(attributes),
             p_has_parking |-> BooleanField(extracted_data, "has_parking"),
             p_has_storage |-> BooleanField(extracted_data, "has_storage"),
             p_has_balcony |-> BooleanField(extracted_data, "has_balcony"),
             p_property_type |-> PropertyType(extracted_data),
             p_attributes |-> Attributes(extracted_data)]

\* extractor.py:539, 762, 783: db_data["p_attributes"] is the list object of
\* extracted_data["attributes"] when the key is there (a new list otherwise),
\* so what the call appends to the one is appended to the other; no other
\* key of extracted_data is assigned.
\* The call as if it worked on a copy of the list.
ExtractedAfterCopy(extracted_data) == extracted_data
ExtractedAfter(extracted_data) ==
    IF /\ transform_for_db(extracted_data) \notin {Null, Raised}
       /\ "attributes" \in DOMAIN extracted_data
    THEN [extracted_data EXCEPT !["attributes"] = Attributes(extracted_data)]
    ELSE extracted_data

\* The inputs of transform_for_db: None, or an ExtractedFields dict holding
\* any subset of the identifying keys and, or not, a list of attributes.
ExternalIds == Tokens \cup {"", None}
Titles == {"", SENTINEL_TITLE, "Flat", None}
Descriptions == {"", "two rooms", None}
FieldValues(k) ==
    CASE k = "external_id" -> ExternalIds
      [] k = "title" -> Titles
      [] k = "description" -> Descriptions
ExtractedKeys == {"external_id", "title", "description"}
IdentifyingDicts ==
    UNION {
        {d \in [keys -> ExternalIds \cup Titles \cup Descriptions] :
            \A k \in keys : d[k] \in FieldValues(k)}
        : keys \in SUBSET ExtractedKeys}
AttributeDicts == {EmptyDict} \cup {[k \in {"attributes"} |-> l] : l \in AttributeLists}
ExtractedInputs ==
    {Null} \cup {Update(d, a) : d \in IdentifyingDicts, a \in AttributeDicts}

NotCalled == [not_called |-> TRUE]

TfInit ==
    /\ tf_in \in ExtractedInputs
    /\ tf_out = NotCalled
    /\ tf_extracted = tf_in

\* ("bale" is بله, "nadarad" is ندارد, "darad" is دارد.)
\* The inputs of the slot conversions: a valid ExtractedFields dict with one
\* of the nine slots set to any kind of value (or none set), and a list of
\* attributes for the fallback scan.
NumericSlots == {"price", "price_per_meter", "area", "land_area", "year_built", "bedrooms"}
BooleanSlots == {"has_parking", "has_storage", "has_balcony"}
SlotStrings ==
    {Str(<<>>), Str(<<" ">>), Str(<<"1">>), Str(<<"0">>), Str(<<" ", "fa3", " ">>),
     Str(<<"1", ".", "5">>), Str(<<"-", "ar5">>), Str(<<"1", ",", "0">>),
     Str(<<"1", " ", "metr">>), Str(<<"x">>), Str(<<"-">>), Str(<<"None">>),
     Str(<<"null">>), Str(<<"inf">>), Str(<<"nan">>), Str(<<"True">>),
     Str(<<"yes">>), Str(<<"bale">>), Str(<<"9x17">>), Str(<<"9x309">>),
     Str(<<"False">>), Str(<<"no">>), Str(<<"nadarad">>), Str(<<"darad">>)}
SlotNumbers ==
    {[type |-> "int", negative |-> FALSE, digits |-> <<>>],
     [type |-> "int", negative |-> FALSE, digits |-> <<"1", "3">>],
     [type |-> "float", negative |-> TRUE, int_part |-> <<"1">>, frac_part |-> <<"5">>],
     Rounded}
SlotValues == {Null} \cup SlotStrings \cup SlotNumbers \cup {Bool(TRUE), Bool(FALSE)}
RoomValues == {Str(<<"fa3">>), Str(<<"1", ".", "5">>), Str(<<"9x309">>), Str(<<"x">>),
               Str(<<>>), [type |-> "int", negative |-> FALSE, digits |-> <<"3">>]}
RoomEntries ==
    {[title |-> "rooms"], [title |-> "area", value |-> Str(<<"fa3">>)]}
    \cup {[title |-> "rooms", value |-> v] : v \in RoomValues}
RoomLists == UNION {[1..n -> RoomEntries] : n \in 0..MaxAttrs}
ValidDict == [k \in {"external_id", "title"} |->
                IF k = "external_id" THEN TEST_TOKEN ELSE "Flat"]
SlotInputs ==
    {Update(Update(ValidDict, slot), [k \in {"attributes"} |-> l]) :
        slot \in {EmptyDict} \cup
                 UNION {{[k \in {f} |-> v] : v \in SlotValues} :
                            f \in NumericSlots \cup BooleanSlots},
        l \in RoomLists}

SlotsInit ==
    /\ tf_in \in SlotInputs
    /\ tf_out = NotCalled
    /\ tf_extracted = tf_in

\* The inputs of the assembly of the attribute list and of the property
\* type: a valid ExtractedFields dict whose title holds a cue word of the
\* classifier or none, with any subset of the core slots set, the
\* property_type slot missing, None, empty, blank or a category, and, or
\* not, a list of attributes.
\* extractor.py:353: the identifying fields of the details of a token.
DetailTitles == {"Flat", "vila"}
Details(title) ==
    [k \in {"external_id", "title", "description"} |->
        CASE k = "external_id" -> TEST_TOKEN [] k = "title" -> title [] OTHER -> ""]
CoreSlots == {CoreAttrs[i].slot : i \in DOMAIN CoreAttrs}
CoreValue(slot) ==
    IF slot = "floor_info" THEN Str(<<"fa3">>)
    ELSE [type |-> "int", negative |-> FALSE, digits |-> <<"1", "3">>]
PropertyTypeValues == {Null, Str(<<>>), Str(<<" ">>), Str(<<"Land">>)}
AssemblyEntries ==
    {[title |-> "property_type"], [title |-> "area"]}
    \cup [title : {"property_type", "area"}, value : {Str(<<>>), Str(<<"Land">>)}]
AssemblyLists == UNION {[1..n -> AssemblyEntries] : n \in 0..MaxAttrs}
AssemblyDicts ==
    {Update(Update([k \in set |-> CoreValue(k)], ptype), Details(title)) :
        set \in SUBSET (CoreSlots \ {"property_type"}),
        ptype \in {EmptyDict} \cup {[k \in {"property_type"} |-> v] : v \in PropertyTypeValues},
        title \in DetailTitles}
AssemblyInputs ==
    AssemblyDicts
    \cup {Update(d, [k \in {"attributes"} |-> l]) : d \in AssemblyDicts, l \in AssemblyLists}

AssemblyInit ==
    /\ tf_in \in AssemblyInputs
    /\ tf_out = NotCalled
    /\ tf_extracted = tf_in

TfIdle ==
    /\ tf_in = Null
    /\ tf_out = NotCalled
    /\ tf_extracted = Null

\* One call of transform_for_db.
TransformCall ==
    /\ UNCHANGED notTfVars
    /\ tf_out = NotCalled
    /\ tf_out' = transform_for_db(tf_in)
    /\ tf_extracted' = ExtractedAfter(tf_in)
    /\ tf_in' = tf_in

-----------------------------------------------------------------------------
\* extract_attributes_from_api (extractor.py:131-335)

MaxRows == 2        \* rows in one API payload

\* The payload as the sequence of its rows in the order the loops visit
\* them: the items of a GROUP_INFO_ROW, an UNEXPANDABLE_ROW, the items of a
\* GROUP_FEATURE_ROW, and the UNEXPANDABLE_ROW and FEATURE_ROW widgets of
\* the modal page nested in a GROUP_FEATURE_ROW.
ValueRowTypes == {"GROUP_INFO_ROW", "UNEXPANDABLE_ROW", "MODAL_UNEXPANDABLE_ROW"}
FeatureRowTypes == {"GROUP_FEATURE_ROW", "MODAL_FEATURE_ROW"}
RowTitles == {"area", "rooms", "price", "parking"}
RowValues == {Str(<<"fa3">>), Str(<<>>)}
Rows ==
    [widget_type : ValueRowTypes, title : RowTitles, value : RowValues]
    \cup [widget_type : {"GROUP_FEATURE_ROW"}, title : RowTitles, available : BOOLEAN]
    \cup [widget_type : FeatureRowTypes \ {"GROUP_FEATURE_ROW"}, title : RowTitles]
Payloads == UNION {[1..n -> Rows] : n \in 0..MaxRows}

\* extractor.py:156, 174, 194, 234, 250: every row appends one entry.
EntryOf(row) ==
    CASE row.widget_type \in ValueRowTypes -> [title |-> row.title, value |-> row.value]
      [] row.widget_type = "GROUP_FEATURE_ROW" ->
            [title |-> row.title, available |-> row.available, key |-> ""]
      [] row.widget_type = "MODAL_FEATURE_ROW" ->
            [title |-> row.title, available |-> TRUE, key |-> ""]

\* The value the last row of a widget type with a title leaves in a slot
\* (extractor.py:159-168, 177-182), None without such a row.
RECURSIVE LastParsed(_, _, _)
LastParsed(rows, widget_type, title) ==
    IF rows = <<>> THEN Null
    ELSE LET row == rows[Len(rows)]
         IN IF row.widget_type = widget_type /\ row.title = title
            THEN parse_persian_number(row.value)
            ELSE LastParsed(SubSeq(rows, 1, Len(rows) - 1), widget_type, title)

\* extractor.py:199-205: has_parking is the "available" of the last
\* GROUP_FEATURE_ROW item whose title contains پارکینگ.
RECURSIVE LastAvailable(_, _)
LastAvailable(rows, title) ==
    IF rows = <<>> THEN Bool(FALSE)
    ELSE LET row == rows[Len(rows)]
         IN IF row.widget_type = "GROUP_FEATURE_ROW" /\ row.title = title
            THEN Bool(row.available)
            ELSE LastAvailable(SubSeq(rows, 1, Len(rows) - 1), title)

\* extract_value_from_attributes(attributes, title_key, is_numeric=True)
\* (extractor.py:799-820): the first entry with the title decides.
RECURSIVE extract_value_from_attributes(_, _)
extract_value_from_attributes(attributes, title_key) ==
    IF attributes = <<>> THEN Null
    ELSE IF Head(attributes).title = title_key
    THEN LET value == AttrGet(Head(attributes), "value")
         IN IF PyTruthy(value) THEN parse_persian_number(value) ELSE value
    ELSE extract_value_from_attributes(Tail(attributes), title_key)

\* The list and the slots of the returned dict that transform_for_db reads
\* for its numeric fields and its attribute list.
extract_attributes_from_api(rows) ==
    LET attributes == [i \in 1..Len(rows) |-> EntryOf(rows[i])]
        bedrooms == LastParsed(rows, "GROUP_INFO_ROW", "rooms")
    IN [attributes |-> attributes,
        area |-> LastParsed(rows, "GROUP_INFO_ROW", "area"),
        bedrooms |-> IF PyTruthy(bedrooms) THEN bedrooms
                     ELSE extract_value_from_attributes(attributes, "rooms"),
        price |-> LastParsed(rows, "UNEXPANDABLE_ROW", "price"),
        has_parking |-> LastAvailable(rows, "parking")]

\* extractor.py:353, 444-447 and main.py:270: the details of a token, updated
\* with what extract_attributes_from_api returns, go to transform_for_db.
AttributesInputs == [title : DetailTitles, rows : Payloads]

ExtractAttributesCall ==
    /\ UNCHANGED notFnVars
    /\ fn_name = "extract_attributes_from_api"
    /\ fn_out = <<>>
    /\ fn_out' = <<extract_attributes_from_api(fn_in.rows)>>
    /\ UNCHANGED <<fn_name, fn_in>>

TransformAttributesCall ==
    /\ UNCHANGED notFnVars
    /\ fn_name = "extract_attributes_from_api"
    /\ Len(fn_out) = 1
    /\ fn_out' = Append(fn_out, transform_for_db(Update(Details(fn_in.title), fn_out[1])))
    /\ UNCHANGED <<fn_name, fn_in>>

-----------------------------------------------------------------------------
\* crawl_and_save_property (main.py:152-328) and extract_property_details
\* (extractor.py:338-514), one call, from suspension to suspension

\* The arguments main passes: the token is TEST_TOKEN in the test modes, a
\* non-empty line of the custom list, or a token that passed "if token and ..."
\* in the wrapper; db_pool is None when init_db_pool failed; storage_manager
\* is None without key or bucket.
ItemArgs(m) ==
    [token : IF m \in {"test", "api_only"} THEN {TEST_TOKEN} ELSE Tokens,
     api_only : {m = "api_only"},
     db_pool : BOOLEAN,
     storage_manager : BOOLEAN]

\* extractor.py:361-376: the tag each of the four title selectors finds, in
\* order: None (no tag), or the tag's stripped text.
TitleSelectors == 1..4
TagTexts == {None, "", "Flat"}
TitleOf(tags) ==
    IF \A i \in TitleSelectors : tags[i] = None
    THEN None
    ELSE tags[CHOOSE i \in TitleSelectors :
                /\ tags[i] # None
                /\ \A j \in 1..(i - 1) : tags[j] = None]
OrDefault(value, default) == IF Truthy(value) THEN value ELSE default

ItemInit ==
    /\ it_pc = "call"
    /\ \E m \in Modes : it_args \in ItemArgs(m)
    /\ it_details = Null
    /\ it_extracted = Null
    /\ it_db_data = Null
    /\ it_handed = {}
    /\ it_log = {}
    /\ it_requests = <<>>

ItemIdle ==
    /\ it_pc = "idle"
    /\ it_args = [token |-> TEST_TOKEN, api_only |-> FALSE, db_pool |-> FALSE,
                  storage_manager |-> FALSE]
    /\ it_details = Null
    /\ it_extracted = Null
    /\ it_db_data = Null
    /\ it_handed = {}
    /\ it_log = {}
    /\ it_requests = <<>>

Handed(sink) == {h \in it_handed : h.sink = sink}

\* main.py:288-328 from "if db_data and db_pool" on, up to the next suspension:
\* the connection is requested, or nothing is persisted and the delay starts
\* (no delay in API-only mode).
AfterJson(db_data, log) ==
    IF db_data # Null /\ it_args.db_pool
    THEN /\ it_pc' = "db_acquire"
         /\ it_log' = log
    ELSE /\ it_pc' = IF it_args.api_only THEN "returned" ELSE "sleep"
         /\ it_log' = log \cup
                (IF db_data # Null THEN {"no_db_pool"}
                 ELSE IF ~it_args.api_only THEN {"no_data_to_save"} ELSE {})

\* main.py:272-286: the JSON file is written only when something was extracted.
AfterExtract(extracted, db_data, log) ==
    IF extracted # Null
    THEN /\ it_pc' = "json"
         /\ it_log' = log
    ELSE AfterJson(db_data, log)

\* main.py:162-223 and extractor.py:349-353, 435-446: the start of the call.
ItemCall ==
    /\ UNCHANGED notItemVars
    /\ it_requests' = IF Truthy(it_args.token) /\ ~it_args.api_only
                      THEN Append(it_requests, "page_request")     \* crawler.arun
                      ELSE it_requests
    /\ it_pc = "call"
    /\ UNCHANGED <<it_args, it_extracted, it_db_data, it_handed>>
    /\ IF ~Truthy(it_args.token)
       THEN /\ it_pc' = "returned"
            /\ it_log' = it_log \cup {"missing_token"}
            /\ it_details' = it_details
       ELSE IF it_args.api_only
       THEN /\ it_pc' = "api"
            /\ it_details' = [external_id |-> it_args.token, title |-> "API Test Mode",
                              description |-> ""]
            /\ it_log' = it_log
       ELSE /\ it_pc' = "arun"
            /\ it_details' = it_details
            /\ it_log' = it_log \cup (IF it_args.db_pool THEN {} ELSE {"no_db_pool"})

\* main.py:223-264 and extractor.py:349-446: crawler.arun returns or raises;
\* with HTML, extract_property_details parses it (or fails and returns None)
\* and then awaits the detail API.
ArunReturn ==
    /\ UNCHANGED notItemVars
    /\ it_requests' = it_requests
    /\ it_pc = "arun"
    /\ UNCHANGED <<it_args, it_db_data, it_handed, it_extracted>>
    /\ \E outcome \in {"raises", "failed", "no_html", "html"} :
        IF outcome = "html"
        THEN \E parse \in {"ok", "raises"} :
                IF parse = "ok"
                THEN \E tags \in [TitleSelectors -> TagTexts], desc \in {"", "two rooms"} :
                        /\ it_details' = [external_id |-> it_args.token,
                                          title |-> OrDefault(TitleOf(tags), SENTINEL_TITLE),
                                          description |-> OrDefault(desc, "")]
                        /\ it_pc' = "api"
                        /\ it_log' = it_log
                ELSE /\ it_details' = Null
                     /\ it_pc' = "debug_html"
                     /\ it_log' = it_log \cup {"extract_failed"}
        ELSE /\ it_details' = Null
             /\ AfterExtract(Null, Null, it_log \cup {"crawl_" \o outcome})

\* extractor.py:446-514 and main.py:188-240: fetch_divar_api_data awaited
\* api_rate_limiter.wait() (extractor.py:93), sent its request, and the
\* detail API answered (data, or {} after any failure); the attributes are
\* merged into details, or the
\* payload makes extract_attributes_from_api raise and None is returned.
\* Only the full crawl transforms what was extracted; when transform_for_db
\* raises, the except clause of main.py:266 logs it and db_data stays None.
ApiReturn ==
    /\ UNCHANGED notItemVars
    /\ it_requests' = it_requests \o <<"wait_returned", "api_request">>
    /\ it_pc = "api"
    /\ UNCHANGED <<it_args, it_handed>>
    /\ it_details' = Null
    /\ \E outcome \in {"data", "empty", "attributes_raise"}, attributes \in AttributeLists :
        LET api_attributes == IF outcome = "data" THEN attributes ELSE <<>>
            extracted == IF outcome = "attributes_raise" THEN Null
                         ELSE Update(it_details, [k \in {"attributes"} |-> api_attributes])
            transformed == IF it_args.api_only THEN Null ELSE transform_for_db(extracted)
            db_data == IF transformed = Raised THEN Null ELSE transformed
            log == it_log
                   \cup (IF extracted = Null THEN {"extract_failed"} ELSE {})
                   \cup (IF transformed = Raised THEN {"unexpected_error"} ELSE {})
                   \cup (IF extracted # Null /\ ~it_args.api_only /\ transformed = Null
                         THEN {"transform_rejected"} ELSE {})
        IN /\ it_extracted' = IF it_args.api_only THEN extracted
                              ELSE ExtractedAfter(extracted)
           /\ it_db_data' = db_data
           /\ IF extracted = Null /\ ~it_args.api_only
              THEN /\ it_pc' = "debug_html"
                   /\ it_log' = log
              ELSE AfterExtract(extracted, db_data, log)

\* main.py:243-255: the HTML of a failed extraction is written for debugging.
DebugHtmlReturn ==
    /\ UNCHANGED notItemVars
    /\ it_requests' = it_requests
    /\ it_pc = "debug_html"
    /\ UNCHANGED <<it_args, it_details, it_extracted, it_db_data, it_handed>>
    /\ \E ok \in BOOLEAN :
        AfterExtract(it_extracted, it_db_data,
                     it_log \cup (IF ok THEN {} ELSE {"debug_html_failed"}))

\* main.py:273-286: the JSON snapshot is written, or the write fails and is logged.
JsonReturn ==
    /\ UNCHANGED notItemVars
    /\ it_requests' = it_requests
    /\ it_pc = "json"
    /\ UNCHANGED <<it_args, it_details, it_extracted, it_db_data, it_handed>>
    /\ \E ok \in BOOLEAN :
        AfterJson(it_db_data, it_log \cup (IF ok THEN {} ELSE {"json_failed"}))

\* main.py:291, 309-313: db_pool.acquire() returns a connection or raises.
DbAcquire ==
    /\ UNCHANGED notItemVars
    /\ it_requests' = it_requests
    /\ it_pc = "db_acquire"
    /\ UNCHANGED <<it_args, it_details, it_extracted, it_db_data, it_handed>>
    /\ \E ok \in BOOLEAN :
        /\ it_pc' = IF ok THEN "db_save" ELSE "sleep"
        /\ it_log' = it_log \cup (IF ok THEN {} ELSE {"db_failed"})

\* main.py:292-296: save_property_to_db is called with db_data; it returns
\* (an id, or None after a conflict or an error it caught) or raises.
SaveToDb ==
    /\ UNCHANGED notItemVars
    /\ it_requests' = it_requests
    /\ it_pc = "db_save"
    /\ UNCHANGED <<it_args, it_details, it_extracted, it_db_data>>
    /\ it_handed' = it_handed \cup {[sink |-> "save_property_to_db", rec |-> it_db_data]}
    /\ \E ok \in BOOLEAN :
        /\ it_pc' = IF ~ok THEN "sleep"
                    ELSE IF it_args.storage_manager THEN "images" ELSE "index"
        /\ it_log' = it_log \cup (IF ok THEN {} ELSE {"db_failed"})

\* main.py:295-296: process_property_images is called with db_data.
ProcessImages ==
    /\ UNCHANGED notItemVars
    /\ it_requests' = it_requests
    /\ it_pc = "images"
    /\ UNCHANGED <<it_args, it_details, it_extracted, it_db_data>>
    /\ it_handed' = it_handed \cup {[sink |-> "process_property_images", rec |-> it_db_data]}
    /\ \E ok \in BOOLEAN :
        /\ it_pc' = IF ok THEN "index" ELSE "sleep"
        /\ it_log' = it_log \cup (IF ok THEN {} ELSE {"db_failed"})

\* main.py:299-307: index_property is called with (db_data, db_conn).  The method
\* takes the record alone (es_indexer.py:236), so binding the arguments raises
\* TypeError, which the inner except logs.
IndexProperty ==
    /\ UNCHANGED notItemVars
    /\ it_requests' = it_requests
    /\ it_pc = "index"
    /\ UNCHANGED <<it_args, it_details, it_extracted, it_db_data>>
    /\ it_handed' = it_handed \cup {[sink |-> "index_property", rec |-> it_db_data]}
    /\ it_pc' = "sleep"
    /\ it_log' = it_log \cup {"es_failed"}

\* main.py:325-328: the post-item delay ends and the call returns.
ItemSleepReturn ==
    /\ UNCHANGED notItemVars
    /\ it_requests' = it_requests
    /\ it_pc = "sleep"
    /\ it_pc' = "returned"
    /\ UNCHANGED <<it_args, it_details, it_extracted, it_db_data, it_handed, it_log>>

ItemNext ==
    \/ ItemCall
    \/ ArunReturn
    \/ ApiReturn
    \/ DebugHtmlReturn
    \/ JsonReturn
    \/ DbAcquire
    \/ SaveToDb
    \/ ProcessImages
    \/ IndexProperty
    \/ ItemSleepReturn

-----------------------------------------------------------------------------
\* extract_property_details (extractor.py:355-402): the title and the
\* description read from the HTML document

\* What the code can find in a document: the tag each title selector
\* matches first, the elements each description selector matches (each
\* with its stripped text), and what it never looks at: the text of the
\* <title> element and the paragraphs of the main content region.
DescriptionSelectors == 1..3
ElementTexts == {<<>>, <<"">>, <<"two rooms">>, <<"", "garden">>}
PageTitles == {None, "Flat | Divar"}
Paragraphs == {<<>>, <<"a long paragraph about the flat">>}
\* extractor.py:362-367: a tag the first selector matches is an h1 whose class
\* holds kt-page-title__title, so the second selector matches a tag too; any
\* tag the second or the third selector matches is an h1, so the fourth
\* selector matches one. The tags found may be different elements.
Matchable(tags) ==
    /\ tags[1] # None => tags[2] # None
    /\ tags[2] # None => tags[4] # None
    /\ tags[3] # None => tags[4] # None
Documents ==
    [title_tags : {tags \in [TitleSelectors -> TagTexts] : Matchable(tags)},
     page_title : PageTitles,
     desc_elements : [DescriptionSelectors -> ElementTexts],
     paragraphs : Paragraphs]

\* extractor.py:388-394: the non-empty texts of the elements, one per line
NonEmpty(text) == text # ""
Joined(desc_elements) == SelectSeq(desc_elements, NonEmpty)
\* extractor.py:386-399: the first selector whose elements give any text
RECURSIVE DescriptionOf(_, _)
DescriptionOf(desc_elements, selector) ==
    IF selector > 3 THEN <<>>
    ELSE IF Joined(desc_elements[selector]) # <<>> THEN Joined(desc_elements[selector])
    ELSE DescriptionOf(desc_elements, selector + 1)

\* extractor.py:360-402: details["title"] and details["description"]
TitleAndDescription(document) ==
    [title |-> OrDefault(TitleOf(document.title_tags), SENTINEL_TITLE),
     description |-> DescriptionOf(document.desc_elements, 1)]

FieldsCall ==
    /\ UNCHANGED notFnVars
    /\ fn_name = "extract_property_details"
    /\ fn_out = <<>>
    /\ fn_out' = <<TitleAndDescription(fn_in)>>
    /\ UNCHANGED <<fn_name, fn_in>>

-----------------------------------------------------------------------------
\* APIRateLimiter (extractor.py:25-48) and fetch_divar_api_data
\* (extractor.py:88-128), as called by the tasks main() gathers for one page

TimeHorizon == 12   \* seconds of the run that are observed

\* Program constants
min_delay == 2
max_delay == 5
RATE_LIMIT_SLEEP == 10
REQUEST_TIMEOUT == 10

NoTime == 0 - 1

\* The clock is a Unix timestamp and last_call_time starts at 0, so the first
\* caller finds time_since_last_call above every delay it can draw. A clock
\* that starts at max_delay has the same effect.
StartTime == max_delay

\* The tasks that hold a permit of the semaphore together, numbered in the
\* order in which they reach fetch_divar_api_data.
FetchTasks == 1..NewSemaphore
Delays == min_delay..max_delay
ApiStatuses == {"200", "429", "other", "client_error"}

\* pc of a task: "crawl" (inside crawler.arun, before the API call), "wait"
\* (suspended in asyncio.sleep inside wait()), "request" (request sent, no
\* response yet), "cooldown" (suspended in asyncio.sleep(10) after a 429),
\* "returned" (fetch_divar_api_data returned).
RLTask(p, d) == [pc |-> p, due |-> d]
RLIn(pcs) == {w \in FetchTasks : rl_tasks[w].pc \in pcs}
RLMove(w, p, d) == [rl_tasks EXCEPT ![w] = RLTask(p, d)]

RLInit ==
    /\ now = StartTime
    /\ last_call_time = 0
    /\ rl_tasks = [w \in FetchTasks |-> RLTask("crawl", NoTime)]
    /\ last_429 = NoTime
    /\ rl_sends = <<>>

RLIdle ==
    /\ now = 0
    /\ last_call_time = 0
    /\ rl_tasks = <<>>
    /\ last_429 = NoTime
    /\ rl_sends = <<>>

\* extractor.py:44 and 93-109: wait() stores the time and returns; the caller
\* goes on, without suspending, to send its request.
WaitReturns(w) ==
    /\ last_call_time' = now
    /\ rl_sends' = Append(rl_sends, [at |-> now, last_429 |-> last_429])
    /\ rl_tasks' = RLMove(w, "request", now + REQUEST_TIMEOUT)

\* extractor.py:31-42: wait() up to its asyncio.sleep, or to its end when it
\* does not sleep.
WaitCall(w, delay) ==
    /\ UNCHANGED notRlVars
    /\ rl_tasks[w].pc = "crawl"
    /\ \A v \in 1..(w - 1) : rl_tasks[v].pc # "crawl"
    /\ LET current_time == now
           time_since_last_call == current_time - last_call_time
           wait_time == delay - time_since_last_call
       IN IF time_since_last_call < delay
          THEN /\ rl_tasks' = RLMove(w, "wait", now + wait_time)
               /\ UNCHANGED <<last_call_time, rl_sends>>
          ELSE WaitReturns(w)
    /\ UNCHANGED <<now, last_429>>

\* extractor.py:42-44: the sleep of wait() is over.
WaitWake(w) ==
    /\ UNCHANGED notRlVars
    /\ rl_tasks[w].pc = "wait"
    /\ now >= rl_tasks[w].due
    /\ WaitReturns(w)
    /\ UNCHANGED <<now, last_429>>

\* extractor.py:109-128: the response, or the failure of the request.
ApiResponse(w, status) ==
    /\ UNCHANGED notRlVars
    /\ rl_tasks[w].pc = "request"
    /\ IF status = "429"
       THEN /\ rl_tasks' = RLMove(w, "cooldown", now + RATE_LIMIT_SLEEP)
            /\ last_429' = now
       ELSE /\ rl_tasks' = RLMove(w, "returned", NoTime)
            /\ UNCHANGED last_429
    /\ UNCHANGED <<now, last_call_time, rl_sends>>

\* extractor.py:109, 123-125: no response within timeout=10.
RequestTimeout(w) ==
    /\ UNCHANGED notRlVars
    /\ rl_tasks[w].pc = "request"
    /\ now >= rl_tasks[w].due
    /\ rl_tasks' = RLMove(w, "returned", NoTime)
    /\ UNCHANGED <<now, last_call_time, last_429, rl_sends>>

\* extractor.py:116-117: the sleep after a 429 is over, {} is returned.
CooldownWake(w) ==
    /\ UNCHANGED notRlVars
    /\ rl_tasks[w].pc = "cooldown"
    /\ now >= rl_tasks[w].due
    /\ rl_tasks' = RLMove(w, "returned", NoTime)
    /\ UNCHANGED <<now, last_call_time, last_429, rl_sends>>

\* A second passes. The event loop resumes a task whose asyncio.sleep or
\* request timeout is due before the clock moves on.
Tick ==
    /\ UNCHANGED notRlVars
    /\ now < StartTime + TimeHorizon
    /\ \A w \in RLIn({"wait", "request", "cooldown"}) : rl_tasks[w].due > now
    /\ now' = now + 1
    /\ UNCHANGED <<last_call_time, rl_tasks, last_429, rl_sends>>

RLNext ==
    \/ \E w \in FetchTasks, delay \in Delays : WaitCall(w, delay)
    \/ \E w \in FetchTasks : WaitWake(w)
    \/ \E w \in FetchTasks, status \in ApiStatuses : ApiResponse(w, status)
    \/ \E w \in FetchTasks : RequestTimeout(w)
    \/ \E w \in FetchTasks : CooldownWake(w)
    \/ Tick

-----------------------------------------------------------------------------
\* main() from its first line to its last (main.py:332-607) and the entry
\* point (main.py:611-616): the resources it opens and closes. The crawl of
\* the chosen mode is one phase here; its steps are those of Spec.

\* A resource is "none" (never opened), "open" or "closed".
\* lf_exit says how main ended; lf_unwinding is the exception that main's
\* finally clause will re-raise once it is through.
LfInit ==
    /\ lf_pc = "init_db"
    /\ lf_mode \in Modes
    /\ lf_db_pool = "none"
    /\ lf_es = "none"
    /\ lf_unwinding = "none"
    /\ lf_exit = "running"

LfIdle ==
    /\ lf_pc = "idle"
    /\ lf_mode = "pagination"
    /\ lf_db_pool = "none"
    /\ lf_es = "none"
    /\ lf_unwinding = "none"
    /\ lf_exit = "running"

Close(resource) == IF resource = "open" THEN "closed" ELSE resource

LfEnd(how) ==
    /\ lf_pc' = "ended"
    /\ lf_exit' = how

\* main.py:334 and db_utils.py:16-65: init_db_pool returns the pool, or None
\* after any failure.
LfInitDbPool ==
    /\ UNCHANGED notLfVars
    /\ lf_pc = "init_db"
    /\ lf_db_pool' \in {"none", "open"}
    /\ lf_pc' = "init_storage"
    /\ UNCHANGED <<lf_mode, lf_es, lf_unwinding, lf_exit>>

\* main.py:336-352 and image_storage.py:33-73: without key no storage; with
\* one, init_bucket answers True or False, or its request raises (the storage
\* service cannot be reached): nothing in main catches that.
LfInitStorage ==
    /\ UNCHANGED notLfVars
    /\ lf_pc = "init_storage"
    /\ UNCHANGED <<lf_mode, lf_db_pool, lf_es, lf_unwinding>>
    /\ \E outcome \in {"no_key", "ok", "bucket_failed", "raises"} :
        IF outcome = "raises"
        THEN LfEnd("raised")
        ELSE /\ lf_pc' = "init_es"
             /\ lf_exit' = lf_exit

\* main.py:355-367 and es_indexer.py:45-59: the client object is stored before
\* the connection is tested; every exception is caught and logged.
LfInitEs ==
    /\ UNCHANGED notLfVars
    /\ lf_pc = "init_es"
    /\ UNCHANGED <<lf_mode, lf_db_pool, lf_unwinding, lf_exit>>
    /\ \E outcome \in {"ok", "constructor_raises", "info_raises", "indexes_raise"} :
        lf_es' = IF outcome = "constructor_raises" THEN "none" ELSE "open"
    /\ lf_pc' = "crawl"

\* What main does once the crawl of its mode is over or failed: the three
\* early modes clean up only on their normal path (main.py:405-409, 413-448);
\* pagination catches Exception and cleans up in finally (main.py:595-607).
LfAfterCrawl(outcome) ==
    IF outcome = "returns" \/ lf_mode = "pagination"
    THEN /\ lf_pc' = "close_db"
         /\ lf_exit' = lf_exit
         /\ lf_unwinding' = IF outcome = "cancelled" THEN "cancelled" ELSE "none"
    ELSE /\ LfEnd(outcome)
         /\ lf_unwinding' = lf_unwinding

\* main.py:372-404, 411-441, 495-593: the crawl of the mode returns (also: an
\* empty custom list), or the start or the end of AsyncWebCrawler raises
\* (no crawler in API-only mode).
LfCrawlEnds ==
    /\ UNCHANGED notLfVars
    /\ lf_pc = "crawl"
    /\ UNCHANGED <<lf_mode, lf_db_pool, lf_es>>
    /\ \E outcome \in {"returns"} \cup (IF lf_mode = "api_only" THEN {} ELSE {"raised"}) :
        LfAfterCrawl(outcome)

\* main.py:611-616: a user interrupt makes asyncio.run cancel main where it
\* is suspended.
LfInterrupt ==
    /\ UNCHANGED notLfVars
    /\ lf_pc \in {"init_db", "init_storage", "crawl"}
    /\ UNCHANGED <<lf_mode, lf_db_pool, lf_es>>
    /\ IF lf_pc = "crawl"
       THEN LfAfterCrawl("cancelled")
       ELSE /\ LfEnd("cancelled")
            /\ lf_unwinding' = lf_unwinding

\* main.py:406-407, 416-417, 444-445, 600-601 and db_utils.py:68-80
LfCloseDbPool ==
    /\ UNCHANGED notLfVars
    /\ lf_pc = "close_db"
    /\ lf_db_pool' = Close(lf_db_pool)
    /\ lf_pc' = "close_es"
    /\ UNCHANGED <<lf_mode, lf_es, lf_unwinding, lf_exit>>

\* main.py:408-409, 418-419, 446-448, 603 and es_indexer.py:61-65; then main
\* returns, or the exception its finally clause held back goes on.
LfCloseEs ==
    /\ UNCHANGED notLfVars
    /\ lf_pc = "close_es"
    /\ lf_es' = Close(lf_es)
    /\ LfEnd(IF lf_unwinding = "none" THEN "returned" ELSE lf_unwinding)
    /\ UNCHANGED <<lf_mode, lf_db_pool, lf_unwinding>>

LfNext ==
    \/ LfInitDbPool
    \/ LfInitStorage
    \/ LfInitEs
    \/ LfCrawlEnds
    \/ LfInterrupt
    \/ LfCloseDbPool
    \/ LfCloseEs

-----------------------------------------------------------------------------
\* DivarElasticsearchIndexer.index_property and _generate_suggestions
\* (es_indexer.py:236-369, 397-501), called any number of times on one
\* cluster

MaxCalls == 2       \* calls of index_property in one behaviour

\* The records passed: what transform_for_db returns, as far as the indexer
\* reads it for the document id, the property type and the suggestions.
\* p_location is None, so _extract_location gives the default city.
IndexIds == {Tok(1), Tok(2)}
IndexRecords ==
    [p_external_id : IndexIds, p_title : DetailTitles,
     p_property_type : {Null, Str(<<LAND>>)}, p_has_parking : BOOLEAN]
DEFAULT_CITY == "Tehran"
EsAnswers == {"ok", "property_index_raises", "suggestion_index_raises"}

\* es_indexer.py:240-267, 306-316, 343: the document; datetime.now() is the
\* ordinal of the call; a property type that is None is classified from the
\* title, and the key is dropped when it is still None.
DocPropertyType(property_data) ==
    IF PyTruthy(property_data.p_property_type) THEN property_data.p_property_type
    ELSE IF classify_property_type(TextOf(property_data.p_title), Null) = None THEN Null
    ELSE Str(<<classify_property_type(TextOf(property_data.p_title), Null)>>)
DocOf(property_data, time) ==
    Update([k \in {"external_id", "title", "has_parking", "location", "created_at"} |->
               CASE k = "external_id" -> property_data.p_external_id
                 [] k = "title" -> property_data.p_title
                 [] k = "has_parking" -> property_data.p_has_parking
                 [] k = "location" -> [city |-> DEFAULT_CITY]
                 [] k = "created_at" -> time],
           IF DocPropertyType(property_data) = Null THEN EmptyDict
           ELSE [k \in {"property_type"} |-> DocPropertyType(property_data)])

\* es_indexer.py:397-494: the suggestions of a document with a city: one
\* for its property type, one for each feature it has.
Suggestions(property_doc, time) ==
    IF "property_type" \notin DOMAIN property_doc THEN <<>>
    ELSE <<[suggestion_type |-> "property_type", city |-> property_doc["location"].city,
            property_type |-> property_doc["property_type"], feature |-> None,
            created_at |-> time]>>
         \o (IF property_doc["has_parking"]
             THEN <<[suggestion_type |-> "feature_filter",
                     city |-> property_doc["location"].city,
                     property_type |-> property_doc["property_type"],
                     feature |-> "parking", created_at |-> time]>>
             ELSE <<>>)

\* es_indexer.py:346-350: es.index with id=p_external_id puts the document
\* under that id, replacing the one that was there.
PutDocument(index, id, doc) == Update(index, [k \in {id} |-> doc])
\* es_indexer.py:496-501: es.index without id adds each suggestion as a new
\* document; an error is logged and the loop goes on.
AddSuggestions(index, suggestions) == index \o suggestions

EsInit ==
    /\ es_property_index = EmptyDict
    /\ es_suggestion_index = <<>>
    /\ es_calls = <<>>

EsIdle == EsInit

\* One call of index_property: the cluster takes the document and the
\* suggestions, or refuses the document (the call raises, es_indexer.py:365-369),
\* or refuses the suggestions (each refusal is logged, 500-501).
IndexPropertyCall ==
    /\ UNCHANGED notEsVars
    /\ Len(es_calls) < MaxCalls
    /\ \E property_data \in IndexRecords, answer \in EsAnswers :
        LET time == Len(es_calls) + 1
            doc == DocOf(property_data, time)
            properties == IF answer = "property_index_raises" THEN es_property_index
                          ELSE PutDocument(es_property_index, property_data.p_external_id, doc)
            suggestions == IF answer = "ok"
                           THEN AddSuggestions(es_suggestion_index, Suggestions(doc, time))
                           ELSE es_suggestion_index
        IN /\ es_property_index' = properties
           /\ es_suggestion_index' = suggestions
           /\ es_calls' = Append(es_calls,
                                 [property_data |-> property_data, answer |-> answer,
                                  property_ids |-> DOMAIN properties,
                                  suggestions |-> Len(suggestions)])

EsNext == IndexPropertyCall

InitLife == DispIdle /\ ItemIdle /\ TfIdle /\ RLIdle /\ LfInit /\ FnIdle /\ EsIdle

SpecLife == InitLife /\ [][LfNext]_vars

InitClassify ==
    DispIdle /\ ItemIdle /\ TfIdle /\ RLIdle /\ LfIdle /\ EsIdle
    /\ FnInit("classify_property_type", ClassifyInputs)

NextClassify == ClassifyCall

SpecClassify == InitClassify /\ [][NextClassify]_vars

InitParse ==
    DispIdle /\ ItemIdle /\ TfIdle /\ RLIdle /\ LfIdle /\ EsIdle
    /\ FnInit("parse_persian_number", ParseInputs)

NextParse == ParseCall

SpecParse == InitParse /\ [][NextParse]_vars

InitAttributes ==
    DispIdle /\ ItemIdle /\ TfIdle /\ RLIdle /\ LfIdle /\ EsIdle
    /\ FnInit("extract_attributes_from_api", AttributesInputs)

NextAttributes == ExtractAttributesCall \/ TransformAttributesCall

SpecAttributes == InitAttributes /\ [][NextAttributes]_vars

InitFields ==
    DispIdle /\ ItemIdle /\ TfIdle /\ RLIdle /\ LfIdle /\ EsIdle
    /\ FnInit("extract_property_details", Documents)

NextFields == FieldsCall

SpecFields == InitFields /\ [][NextFields]_vars

InitRL == DispIdle /\ ItemIdle /\ TfIdle /\ RLInit /\ LfIdle /\ FnIdle /\ EsIdle

SpecRL == InitRL /\ [][RLNext]_vars

InitItem == DispIdle /\ ItemInit /\ TfIdle /\ RLIdle /\ LfIdle /\ FnIdle /\ EsIdle

SpecItem == InitItem /\ [][ItemNext]_vars

InitTransform == DispIdle /\ ItemIdle /\ TfInit /\ RLIdle /\ LfIdle /\ FnIdle /\ EsIdle

NextTransform == TransformCall

SpecTransform == InitTransform /\ [][NextTransform]_vars

InitSlots ==
    DispIdle /\ ItemIdle /\ SlotsInit /\ RLIdle /\ LfIdle /\ FnIdle /\ EsIdle

SpecSlots == InitSlots /\ [][NextTransform]_vars

InitAssembly ==
    DispIdle /\ ItemIdle /\ AssemblyInit /\ RLIdle /\ LfIdle /\ FnIdle /\ EsIdle

SpecAssembly == InitAssembly /\ [][NextTransform]_vars


InitIndex == DispIdle /\ ItemIdle /\ TfIdle /\ RLIdle /\ LfIdle /\ FnIdle /\ EsInit

SpecIndex == InitIndex /\ [][EsNext]_vars

Init == DispInit /\ ItemIdle /\ TfIdle /\ RLIdle /\ LfIdle /\ FnIdle /\ EsIdle

Next == DispNext

Spec == Init /\ [][Next]_vars

\* Every remote call returns or times out and the event loop runs every task
\* that is ready: a step that stays possible is eventually taken.
FairSpec == Spec /\ WF_vars(Next)

-----------------------------------------------------------------------------
\* Claims about the dispatcher (Spec, FairSpec)

\* C1: in a run, crawl_and_save_property is started at most once per token,
\* whatever the pages contain and however the tasks interleave.
C1_CrawledOncePerToken == \A t \in Tokens : crawl_starts[t] <= 1

\* C1 witness: on a later page, several widgets carry the one token that was
\* crawled before, and every one of them was skipped.
C1_Witness ==
    /\ mode = "pagination"
    /\ page_num >= 2
    /\ Len(tasks) >= 2
    /\ \A i \in DOMAIN tasks : tasks[i].pc = "skipped"
    /\ \E t \in Tokens : crawled_tokens = {t} /\ crawl_starts[t] = 1

\* C2: at most MAX_CONCURRENT_CRAWLS executions of crawl_and_save_property are
\* in flight at any instant.
C2_ConcurrencyCeiling == Cardinality(InFlight) <= MAX_CONCURRENT_CRAWLS

\* C2 witness: the ceiling is reached and a further widget task waits for a slot.
C2_Witness ==
    /\ Cardinality(InFlight) = MAX_CONCURRENT_CRAWLS
    /\ semaphore = 0
    /\ TaskIn({"pending"}) # {}

\* C3 (as claimed): an exception raised while one widget is handled neither
\* stops the other widget tasks of the page (none is cancelled) nor the run
\* (main does not enter its except clause because of it).
C3_FailureIsolation ==
    /\ \A i \in DOMAIN tasks : tasks[i].pc # "cancelled"
    /\ TaskIn({"raised"}) # {} => main_pc \notin {"aborting", "done"}

\* C6 (as claimed): a listings page with no POST_ROW widget and no derivable
\* sort_date ends the pagination loop, whatever the earlier pages left behind.
C6_EmptyPageStops ==
    (last_response = "widgets" /\ last_page.rows = 0 /\ last_page.sort_date = None)
        => main_pc = "done"

\* C7: a pagination run issues at most PAGES_TO_CRAWL listings fetches and
\* always terminates.
C7_BoundedAndTerminates ==
    /\ [](pages_fetched <= PAGES_TO_CRAWL)
    /\ <>(main_pc = "done")

\* C7 witness: a run that used every page of its budget and ended.
C7_Witness ==
    /\ mode = "pagination"
    /\ main_pc = "done"
    /\ pages_fetched = PAGES_TO_CRAWL
    /\ next_page_cursor # None

\* C8: a failed listings fetch yields None, ends the loop at once with no task
\* dispatched for that page, and main returns normally.
C8_FailedFetchStops ==
    last_response \in FailedResponses =>
        /\ fetch_divar_listings(last_response) = None
        /\ main_pc = "done"
        /\ tasks = <<>>

\* C8 witness: the fetch of a later page fails after tokens were crawled.
C8_Witness ==
    /\ last_response \in FailedResponses
    /\ pages_fetched >= 2
    /\ crawled_tokens # {}
    /\ main_pc = "done"

\* C20: the first listings page is requested with no cursor, and every later
\* page k+1 with the sort_date of the last item returned on page k as its
\* cursor, never with a cursor taken from an older page.
C20_CursorOfPreviousPage ==
    /\ pages_fetched = 1 => last_request.cursor = None
    /\ pages_fetched > 1 => last_request.cursor = last_request.previous_sort_date

\* C27: main goes on from the gather of a page, to the fetch of the next
\* page or to the end of the run, only when every task of the page has ended
\* and every slot is free; so no task is in flight or waiting when a listings
\* page is fetched, and none when a run that completed its pages ends.
LeavesGatherNormally == main_pc = "gather" /\ main_pc' \in {"fetch", "done"}
C27_PagesDoNotOverlap ==
    [][/\ LeavesGatherNormally =>
             /\ \A i \in DOMAIN tasks : tasks[i].pc \in {"done", "skipped"}
             /\ semaphore = NewSemaphore
       /\ pages_fetched' # pages_fetched =>
             /\ InFlight = {}
             /\ TaskIn({"pending"}) = {}]_vars
C27_Witness ==
    /\ mode = "pagination"
    /\ pages_fetched = 2
    /\ Len(tasks) = 1
    /\ tasks[1].pc = "crawl"
    /\ crawled_tokens = {Tok(1), Tok(2)}

\* C28: in a pagination run the seen set only grows; a crawl is started
\* only for a token that is not in the seen set, and the token is in it from
\* that step on, however the crawl ends; when main ends, the size of the
\* seen set (the count it reports) is the number of distinct tokens whose
\* crawl was started.
Started(starts) == {t \in Tokens : starts[t] > 0}
C28_SeenSetOnlyGrows ==
    [][mode = "pagination" =>
         /\ crawled_tokens \subseteq crawled_tokens'
         /\ \A t \in Tokens :
                crawl_starts'[t] # crawl_starts[t]
                    => t \notin crawled_tokens /\ t \in crawled_tokens'
         /\ main_pc' = "done" =>
                Cardinality(crawled_tokens') = Cardinality(Started(crawl_starts'))]_vars
C28_Witness ==
    /\ mode = "pagination"
    /\ pages_fetched = 2
    /\ Len(tasks) = 2
    /\ tasks[1].pc = "skipped"
    /\ tasks[2].pc = "sleep"
    /\ crawled_tokens = {Tok(1), Tok(2)}
    /\ crawl_starts[Tok(1)] = 1

\* C29: in a pagination run every slot that is taken is held by a task that
\* crawls or sits in its post-item delay, and is free again once the task
\* has ended, also when the token is missing or was seen; no slot is held
\* when gather returns; and no task of a page is left waiting for a slot,
\* never to get one, when main ends.
C29_SlotsAcquiredAndReleased ==
    [][mode = "pagination" =>
         /\ tasks # <<>> => semaphore + Cardinality(InFlight) = NewSemaphore
         /\ LeavesGatherNormally => semaphore = NewSemaphore
         /\ main_pc' = "done" => TaskIn({"pending"}) = {}]_vars

-----------------------------------------------------------------------------
\* Claims about one call of crawl_and_save_property (SpecItem)

ValidRecord(rec) ==
    /\ rec # Null
    /\ rec.p_external_id \notin {"", None}
    /\ rec.p_title \notin {"", None, "N/A"}

\* C4: in every mode, no record with an empty external id, an empty title or
\* the title "N/A" is passed to save_property_to_db, process_property_images
\* or index_property; a rejected record is logged and nothing of it is persisted.
C4_OnlyValidRecordsHanded ==
    /\ \A h \in it_handed : ValidRecord(h.rec)
    /\ (it_extracted # Null /\ ~it_args.api_only /\ it_extracted.title \in {"", "N/A"})
          => /\ "transform_rejected" \in it_log
             /\ it_handed = {}
             /\ it_pc \in {"json", "sleep", "returned"}

\* C4 witness: a full crawl whose page yields no title ended; the record was
\* rejected and logged, and nothing was handed on although a pool was there.
C4_Witness ==
    /\ it_pc = "returned"
    /\ ~it_args.api_only
    /\ it_args.db_pool
    /\ it_extracted # Null
    /\ it_extracted.title = "N/A"
    /\ "transform_rejected" \in it_log
    /\ it_handed = {}

\* C18: for every token whose record transform_for_db accepted while a
\* database pool is available, the record is handed to save_property_to_db
\* and to index_property, and its document is written to the index, before
\* the call returns and the slot is released. (Calls in which acquiring
\* the connection, the save or the images fail are left out.)
C18_RecordPersistedAndIndexed ==
    (/\ it_pc \in {"sleep", "returned"}
     /\ it_db_data # Null
     /\ it_args.db_pool
     /\ "db_failed" \notin it_log)
    => /\ Handed("save_property_to_db") = {[sink |-> "save_property_to_db", rec |-> it_db_data]}
       /\ Handed("index_property") = {[sink |-> "index_property", rec |-> it_db_data]}
       /\ "es_failed" \notin it_log

\* C19: every request for a token's detail document, the crawl of the
\* detail page as well as the call of the detail API, is issued only after
\* a call of APIRateLimiter.wait() made for that request has returned.
IsRequest(event) == event \in {"page_request", "api_request"}
C19_RequestsAfterWait ==
    \A i \in DOMAIN it_requests :
        IsRequest(it_requests[i]) => (i > 1 /\ it_requests[i - 1] = "wait_returned")

-----------------------------------------------------------------------------
\* Claims about transform_for_db (SpecTransform)

\* C5: transform_for_db returns None exactly when the input is empty, the
\* external id is missing or empty, or the title is missing, empty or "N/A";
\* for every other input it returns a record (it neither returns None nor
\* raises) that carries the input's external id and title.
C5_TransformValidation ==
    tf_out # NotCalled =>
        LET empty == tf_in = Null \/ DOMAIN tf_in = {}
            no_id == "external_id" \notin DOMAIN tf_in \/ tf_in["external_id"] \in {"", None}
            no_title == "title" \notin DOMAIN tf_in \/ tf_in["title"] \in {"", None, "N/A"}
        IN IF empty \/ no_id \/ no_title
           THEN tf_out = Null
           ELSE /\ tf_out # Null
                /\ tf_out # Raised
                /\ tf_out.p_external_id = tf_in["external_id"]
                /\ tf_out.p_title = tf_in["title"]

-----------------------------------------------------------------------------
\* Claims about the shared rate limiter (SpecRL)

\* C9: on the shared APIRateLimiter any two successive returns of wait() are
\* at least min_delay apart whatever the interleaving of the tasks, at most
\* one task is suspended inside wait() at a time, and each return sets
\* last_call_time to the time of the return.
C9_WaitReturnsSpaced ==
    /\ \A i \in 1..(Len(rl_sends) - 1) :
          rl_sends[i + 1].at - rl_sends[i].at >= min_delay
    /\ Cardinality(RLIn({"wait"})) <= 1
    /\ rl_sends # <<>> => last_call_time = rl_sends[Len(rl_sends)].at

\* C10: after the API answered 429 to one task, no task sends a request to it
\* before RATE_LIMIT_SLEEP seconds have passed.
C10_CooldownHoldsForAll ==
    \A i \in 1..Len(rl_sends) :
        \/ rl_sends[i].last_429 = NoTime
        \/ rl_sends[i].at - rl_sends[i].last_429 >= RATE_LIMIT_SLEEP

-----------------------------------------------------------------------------
\* Claims about the resources of main (SpecLife)

\* C11: however main ends (in any mode; by returning, by an exception during
\* initialisation or crawling, or cancelled by a user interrupt), the database
\* pool it opened is closed and the search client it opened is closed.
C11_ResourcesReleased ==
    lf_exit # "running" => (lf_db_pool # "open" /\ lf_es # "open")

-----------------------------------------------------------------------------
\* Claims about classify_property_type (SpecClassify)

Occurs(keyword) ==
    \E text \in {fn_in.title, fn_in.description} :
        text # Null /\ \E w \in text.words : keyword \in Parts(w)
OccursAny(keywords) == \E k \in keywords : Occurs(k)
VillaKeywords == {"vila", "vilayi"}
ApartmentKeywords == {"aparteman", "aparteman_alef", "borj", "mojtame_maskuni"}
LandKeywords == {"zamin", "qete", "qete_zamin", "bagh", "baghche"}

\* C16 as stated, the word for "unit" (vahed) being one of the apartment
\* keywords of the code: the result is Villa whenever a villa keyword occurs,
\* else Apartment whenever an apartment keyword occurs, else Land whenever a
\* land keyword occurs, else None; Land is never returned for a text with a
\* villa or apartment keyword.
C16_ClassifierPrecedence ==
    FnCalled("classify_property_type") =>
        /\ fn_out[1] =
              IF OccursAny(VillaKeywords) THEN VILLA
              ELSE IF OccursAny(ApartmentKeywords \cup {"vahed"}) THEN APARTMENT
              ELSE IF OccursAny(LandKeywords) THEN LAND
              ELSE None
        /\ fn_out[1] = LAND =>
              ~OccursAny(VillaKeywords \cup ApartmentKeywords \cup {"vahed"})

\* C16 amended: "unit" counts for Apartment only when the word for "land"
\* (zamin) does not occur; with it the text falls through to the land test.
\* The result is one of Villa, Apartment, Land, None, and Land is never
\* returned for a text with a villa keyword or one of the four unconditional
\* apartment keywords.
C16_ClassifierPrecedenceAmended ==
    FnCalled("classify_property_type") =>
        /\ fn_out[1] =
              IF OccursAny(VillaKeywords) THEN VILLA
              ELSE IF \/ OccursAny(ApartmentKeywords)
                      \/ (Occurs("vahed") /\ ~Occurs("zamin")) THEN APARTMENT
              ELSE IF OccursAny(LandKeywords) THEN LAND
              ELSE None
        /\ fn_out[1] \in {VILLA, APARTMENT, LAND, None}
        /\ fn_out[1] = LAND => ~OccursAny(VillaKeywords \cup ApartmentKeywords)

\* C16 witness: a title with "unit" and a description with "land" were
\* classified as Land.
C16_Witness ==
    /\ FnCalled("classify_property_type")
    /\ fn_in.title = Text({"vahed"})
    /\ fn_in.description = Text({"zamin"})
    /\ fn_out[1] = LAND

\* C14: for every input (None, a non-string value, the empty string, any
\* string of digits, separators, signs, dots, unit words and other
\* characters) parse_persian_number returns an int, a float or None; it never
\* raises and never returns a string.
IsIntOrFloat(v) ==
    "type" \in DOMAIN v /\ v.type \in {"int", "float", "int or float"}
C14_NeverRaises ==
    FnCalled("parse_persian_number") =>
        (fn_out[1] = Null \/ IsIntOrFloat(fn_out[1]))

\* The strings of C15: digits in the three scripts, thousands separators,
\* unit words and blanks, an optional leading '-', at most one '.', and at
\* least one digit.
Glyphs == {"0", "1", "fa3", "ar5", "9x17", "9x309"}
IsGlyph(p) == p \in Glyphs
IsWritten(p) == p \in Glyphs \cup {".", "-"}
NumberStrings ==
    {t \in Strings :
        /\ \A i \in 1..Len(t.pieces) :
              /\ t.pieces[i] \in Glyphs \cup {",", "sep_fa", ".", "-", " ",
                                              "metr", "metr_moraba", "toman"}
              /\ t.pieces[i] = "-" => i = 1
        /\ Len(SelectSeq(t.pieces, IsDot)) <= 1
        /\ SelectSeq(t.pieces, IsGlyph) # <<>>}
\* The number the digits of such a string denote, as an int when it is
\* integral and as a float otherwise
Latin(p) == CASE p = "fa3" -> "3" [] p = "ar5" -> "5" [] OTHER -> p
NumberOf(t) ==
    LET written == SelectSeq(t.pieces, IsWritten)
        d == Denoted([i \in 1..Len(written) |-> Latin(written[i])])
    IN IF d.frac_part = <<>> THEN PyInt(d) ELSE PyFloat(d)
NoNumber == {Null, Str(<<>>), Str(<<"-">>)}

ShortNumberStrings ==
    {t \in NumberStrings :
        LET written == SelectSeq(t.pieces, IsWritten)
        IN SignificantDigits(Denoted([i \in 1..Len(written) |-> Latin(written[i])])) <= DBL_DIG}
-----------------------------------------------------------------------------
\* Claims about the slots of the record transform_for_db returns (SpecSlots)

\* C17: in every record returned by transform_for_db the three p_has_*
\* fields are exactly true or false, and the six numeric fields are each an
\* int, a float or null and never a string, for every kind of input value
\* and also when p_bedrooms is filled by the scan of the attribute list.
IsRecordReturned(out) == out \notin {NotCalled, Null, Raised}
IsNumberOrNull(v) == v = Null \/ IsIntOrFloat(v)
C17_SlotTypes ==
    IsRecordReturned(tf_out) =>
        /\ tf_out.p_has_parking \in BOOLEAN
        /\ tf_out.p_has_storage \in BOOLEAN
        /\ tf_out.p_has_balcony \in BOOLEAN
        /\ IsNumberOrNull(tf_out.p_price)
        /\ IsNumberOrNull(tf_out.p_price_per_meter)
        /\ IsNumberOrNull(tf_out.p_area)
        /\ IsNumberOrNull(tf_out.p_land_area)
        /\ IsNumberOrNull(tf_out.p_year_built)
        /\ IsNumberOrNull(tf_out.p_bedrooms)
C17_Witness ==
    /\ IsRecordReturned(tf_out)
    /\ tf_in["attributes"] = <<[title |-> "rooms", value |-> Str(<<"fa3">>)]>>
    /\ "area" \in DOMAIN tf_in
    /\ tf_in["area"] = Str(<<"x">>)
    /\ tf_out.p_area = Null
    /\ tf_out.p_bedrooms = [type |-> "int", negative |-> FALSE, digits |-> <<"3">>]

-----------------------------------------------------------------------------
\* Claims about the attribute lists (SpecAttributes)

\* C12: the attribute list returned by extract_attributes_from_api, and the
\* p_attributes list of every record returned by transform_for_db, holds at
\* most one entry per title, also when the same title occurs in several rows
\* of the payload.
TitlesUnique(attributes) ==
    \A i, j \in DOMAIN attributes : attributes[i].title = attributes[j].title => i = j
C12_AttributeTitlesUnique ==
    /\ Len(fn_out) >= 1 /\ fn_name = "extract_attributes_from_api"
        => TitlesUnique(fn_out[1]["attributes"])
    /\ Len(fn_out) >= 2 /\ fn_name = "extract_attributes_from_api"
        => TitlesUnique(fn_out[2].p_attributes)

-----------------------------------------------------------------------------
\* Claims about the title and the description (SpecFields)

\* C13: when the document yields a title only through the page-level
\* title, the title returned is not "N/A"; when it yields a description
\* only through a substantial paragraph of the main content, the description
\* returned is not empty.
OnlyPageTitle(document) ==
    /\ \A i \in TitleSelectors : ~Truthy(document.title_tags[i])
    /\ document.page_title # None
OnlyParagraph(document) ==
    /\ \A i \in DescriptionSelectors : Joined(document.desc_elements[i]) = <<>>
    /\ document.paragraphs # <<>>
C13_LastStrategyYieldsValue ==
    FnCalled("extract_property_details") =>
        /\ OnlyPageTitle(fn_in) => fn_out[1].title # SENTINEL_TITLE
        /\ OnlyParagraph(fn_in) => fn_out[1].description # <<>>

\* C21: the title returned is the text of the first title selector, in the
\* order of the list, whose tag has a non-empty text, and "N/A" only when
\* no selector gives a non-empty text; the description returned is the text
\* of the first description selector whose elements give any text, and
\* empty only when none does.
YieldsTitle(document) == {i \in TitleSelectors : Truthy(document.title_tags[i])}
YieldsDescription(document) ==
    {i \in DescriptionSelectors : Joined(document.desc_elements[i]) # <<>>}
First(selectors) == CHOOSE i \in selectors : \A j \in selectors : i <= j
C21_FirstNonEmptySelectorWins ==
    FnCalled("extract_property_details") =>
        /\ fn_out[1].title =
              IF YieldsTitle(fn_in) = {} THEN SENTINEL_TITLE
              ELSE fn_in.title_tags[First(YieldsTitle(fn_in))]
        /\ fn_out[1].description =
              IF YieldsDescription(fn_in) = {} THEN <<>>
              ELSE Joined(fn_in.desc_elements[First(YieldsDescription(fn_in))])

-----------------------------------------------------------------------------
\* Claims about the slots of extract_attributes_from_api (SpecAttributes)

\* C22: after extract_attributes_from_api every slot of the title-to-field
\* mapping (here: area, bedrooms, price) whose title stands in the collected
\* attribute list with a usable value is set, whatever kind of row carried it.
SlotTitle(slot) ==
    CASE slot = "area" -> "area" [] slot = "bedrooms" -> "rooms" [] slot = "price" -> "price"
MappedSlots == {"area", "bedrooms", "price"}
Usable(entry) ==
    "value" \in DOMAIN entry /\ parse_persian_number(entry.value) # Null
IsSet(value) == value # Null /\ value # Str(<<>>)
CollectedWithValue(attributes, slot) ==
    \E i \in DOMAIN attributes :
        attributes[i].title = SlotTitle(slot) /\ Usable(attributes[i])
C22_SlotsSetFromAnyRow ==
    (fn_name = "extract_attributes_from_api" /\ fn_out # <<>>) =>
        \A slot \in MappedSlots :
            CollectedWithValue(fn_out[1].attributes, slot) => IsSet(fn_out[1][slot])

-----------------------------------------------------------------------------
\* Claims about the assembly of the record (SpecAssembly)

\* C23: in a record returned by transform_for_db, p_property_type is the
\* non-empty category obtained from the property_type slot or else from an
\* attribute titled نوع ملک when there is one, and otherwise what
\* classify_property_type gives for the title and the description; so it is
\* null or a non-empty string.
NonEmptyStr(value) == IsStr(value) /\ value.pieces # <<>>
InputAttributes(extracted_data) ==
    IF "attributes" \in DOMAIN extracted_data THEN extracted_data["attributes"] ELSE <<>>
RECURSIVE FirstCategory(_)
FirstCategory(attributes) ==
    IF attributes = <<>> THEN Null
    ELSE IF /\ Head(attributes).title = "property_type"
            /\ NonEmptyStr(AttrGet(Head(attributes), "value"))
    THEN Head(attributes).value
    ELSE FirstCategory(Tail(attributes))
CategoryObtained(extracted_data) ==
    IF TextField(GetSlot(extracted_data, "property_type")) # Null
    THEN TextField(GetSlot(extracted_data, "property_type"))
    ELSE FirstCategory(InputAttributes(extracted_data))
ClassifierResult(extracted_data) ==
    IF Classified(extracted_data) = None THEN Null
    ELSE Str(<<Classified(extracted_data)>>)
C23_ClassifierOnlyAsFallback ==
    IsRecordReturned(tf_out) =>
        /\ tf_out.p_property_type =
              IF CategoryObtained(tf_in) # Null THEN CategoryObtained(tf_in)
              ELSE ClassifierResult(tf_in)
        /\ tf_out.p_property_type = Null \/ NonEmptyStr(tf_out.p_property_type)

-----------------------------------------------------------------------------
\* Claims about the boolean features (SpecSlots)

\* C24: in a record returned by transform_for_db a boolean feature is false
\* when its slot is absent (or None) or carries a negative value, and true
\* when it carries any other value, an empty one included.
Zero == [type |-> "int", negative |-> FALSE, digits |-> <<>>]
NegativeValues ==
    {Null, Bool(FALSE), Zero, Str(<<"0">>), Str(<<"False">>), Str(<<"no">>),
     Str(<<"nadarad">>), Str(<<"None">>), Str(<<"null">>)}
Returned(field) == "p_" \o field
C24_BooleanFeatures ==
    IsRecordReturned(tf_out) =>
        \A field \in BooleanSlots :
            tf_out[Returned(field)] =
                (field \in DOMAIN tf_in /\ tf_in[field] \notin NegativeValues)

-----------------------------------------------------------------------------
\* Claims about the search indexes (SpecIndex)

\* C26: a call of index_property that follows a call with the same record,
\* both taken by the cluster, leaves the property index with the same
\* document ids (one for the external id) and the suggestion index with no
\* more documents than the first call left.
C26_IndexingIdempotent ==
    \A i \in 1..(Len(es_calls) - 1) :
        (/\ es_calls[i + 1].property_data = es_calls[i].property_data
         /\ es_calls[i].answer = "ok"
         /\ es_calls[i + 1].answer = "ok")
        => /\ es_calls[i + 1].property_ids = es_calls[i].property_ids
           /\ es_calls[i + 1].suggestions = es_calls[i].suggestions

====
